---- MODULE Spec2Model ----
(***************************************************************************)
(* simple_flecs: a Rust binding over the Flecs entity-component-system.    *)
(* The binding (World, EntityView, QueryBuilder, SystemBuilder, Iter) is   *)
(* translated from src/src/*.rs.  The storage engine behind the ecs_*      *)
(* calls is not part of the source tree; it is modelled from the design    *)
(* document (sections 3 and 4) and every such definition is named ecs_* or *)
(* flecs_*.                                                                *)
(***************************************************************************)
EXTENDS Integers, Sequences, FiniteSets, TLC

(***************************************************************************)
(* Bounds of the model.                                                    *)
(***************************************************************************)
StoreEntities == 2
QueryEntities == 3
TreeEntities == 4
MaxGen == 2
MaxTables == 5
MaxSystems == 3
MaxFrames == 4
MaxRate == 2
MaxVal == 1
PathEntities == 3
MaxNameLen == 2
MaxWorlds == 2
MaxDrops == 3
MaxDefer == 2
MaxQueue == 2
MaxViews == 4
MaxQueries == 3
MaxCount == 4

(***************************************************************************)
(* Identifier layout (scaled down from the 64-bit layout: the low digits   *)
(* hold the index, the digits above the generation, the top flag marks a   *)
(* pair).                                                                  *)
(***************************************************************************)
GenShift == 100
PairShift == 100
PairFlag == 10000

\* built-in ids (src/src/flecs.rs)
ChildOf == 1
DependsOn == 2
OnLoad == 3
OnUpdate == 4
OnStore == 5
System == 6

\* components registered by the application (src/src/test/query.rs)
CompData == 10
CompTag == 11
CompTriple == 12

\* the component with a destructor (src/src/test/drop.rs)
CompDropper == 13

FirstEntity == 20

MaxOf(a, b) == IF a > b THEN a ELSE b
MaxEntities ==
    MaxOf(MaxOf(MaxOf(StoreEntities, TreeEntities), MaxOf(MaxSystems, QueryEntities)),
          PathEntities)
Indices == FirstEntity .. (FirstEntity + MaxEntities - 1)
StoreSlots == FirstEntity .. (FirstEntity + StoreEntities - 1)
TreeSlots == FirstEntity .. (FirstEntity + TreeEntities - 1)
Phases == {OnLoad, OnUpdate, OnStore}
\* 0: no rate filter; a rate of 1 runs every frame like no filter
Rates == {0} \cup (2 .. MaxRate)
Values == 1 .. MaxVal
DataIds == {CompData}
TagIds == {CompTag}
QueryIds == {CompTag, CompTriple}

Index(id) == id % GenShift
Gen(id) == id \div GenShift
EntityId(idx, gen) == idx + gen * GenShift

ecs_make_pair(first, second) == PairFlag + Index(first) * PairShift + Index(second)
IsPair(id) == id >= PairFlag
ecs_pair_first(id) == (id - PairFlag) \div PairShift
ecs_pair_second(id) == (id - PairFlag) % PairShift

\* an id whose column stores data (a tag contributes to the type only); a
\* pair stores the data of its first id, or of its second when the first
\* has none.  A component registered at run time has an entity id; the
\* ones that are put on entities here are data components.
IsDataId(id) ==
    IF IsPair(id)
    THEN ecs_pair_first(id) \in DataIds \/ ecs_pair_second(id) \in DataIds
    ELSE id \in DataIds \cup {CompDropper} \/ id >= FirstEntity

Range(s) == {s[i] : i \in 1 .. Len(s)}

(***************************************************************************)
(* Table store of the engine.  A table is its type (a sorted sequence of   *)
(* ids), its entity array and one column per data id.                      *)
(***************************************************************************)
RECURSIVE flecs_type_insert_at(_, _, _)
flecs_type_insert_at(type, id, i) ==
    IF i > Len(type) THEN Append(type, id)
    ELSE IF type[i] = id THEN type
    ELSE IF type[i] > id THEN SubSeq(type, 1, i - 1) \o <<id>> \o SubSeq(type, i, Len(type))
    ELSE flecs_type_insert_at(type, id, i + 1)

flecs_type_add_unsorted(type, id) ==
    IF id \in Range(type) THEN type ELSE Append(type, id)

\* type + id, kept sorted
flecs_type_add(type, id) == flecs_type_insert_at(type, id, 1)

\* type - id
flecs_type_remove(type, id) == SelectSeq(type, LAMBDA x : x # id)

\* index of the table whose type is `type`, 0 when there is none
flecs_table_find(tables, type) ==
    IF \E i \in 1 .. Len(tables) : tables[i].type = type
    THEN CHOOSE i \in 1 .. Len(tables) : tables[i].type = type
    ELSE 0

flecs_table_new(type) ==
    [type |-> type, entities |-> <<>>,
     columns |-> [id \in {x \in Range(type) : IsDataId(x)} |-> <<>>]]

\* the tables after making sure a table of this type exists
flecs_table_ensure(tables, type) ==
    IF flecs_table_find(tables, type) # 0 THEN tables
    ELSE Append(tables, flecs_table_new(type))

\* swap-remove: the last element takes the place of element i
flecs_swap_remove(s, i) ==
    IF i = Len(s) THEN SubSeq(s, 1, Len(s) - 1)
    ELSE [SubSeq(s, 1, Len(s) - 1) EXCEPT ![i] = s[Len(s)]]

flecs_table_delete_row(t, row) ==
    [t EXCEPT !.entities = flecs_swap_remove(t.entities, row),
              !.columns = [id \in DOMAIN t.columns |-> flecs_swap_remove(t.columns[id], row)]]

flecs_table_append(t, e, vals) ==
    [t EXCEPT !.entities = Append(t.entities, e),
              !.columns = [id \in DOMAIN t.columns |-> Append(t.columns[id], vals[id])]]

(***************************************************************************)
(* Lifecycle hooks.  Registration stores dtor_callback::<T> as the dtor    *)
(* hook of a component whose type needs drop (src/src/world.rs); the       *)
(* engine calls the hook on the element of a column that leaves a table.   *)
(* w.drops lists the values the hook dropped, in the order it dropped      *)
(* them.                                                                   *)
(***************************************************************************)
\* what a read of a T finds at that byte offset of a column, Garbage when
\* no element starts there
Garbage == 0

ObjectAt(column, byte, size) ==
    IF byte % size = 0 /\ byte \div size < Len(column)
    THEN column[byte \div size + 1] ELSE Garbage

size_of(T) ==
    IF T = "FooBar" THEN 16 ELSE IF T \in {"Likes", "TestTag", "TestTriple"} THEN 0 ELSE 8

NEEDS_DROP(T) == T = "Dropper"

\* the Rust type registered for a component id
ComponentType(id) ==
    IF id = CompDropper THEN "Dropper"
    ELSE IF id = CompTag THEN "TestTag"
    ELSE IF id = CompTriple THEN "TestTriple"
    ELSE "TestData"

\* <*mut c_void>::offset(i): c_void has size 1, the pointer moves i bytes
c_void_offset(ptr, i) == ptr + i

hooks_dtor_none(T) == FALSE

\* hooks.dtor of World::component: Some(dtor_callback::<T>) or None
hooks_dtor(T) == NEEDS_DROP(T)

\* dtor_callback::<T>(ptr, count, _): the loop from element i on, ptr being
\* `byte` bytes into the column
RECURSIVE dtor_callback_from(_, _, _, _, _, _)
dtor_callback_from(drops, column, byte, i, count, T) ==
    IF i >= count THEN drops
    ELSE dtor_callback_from(Append(drops, ObjectAt(column, c_void_offset(byte, i), size_of(T))),
                            column, byte, i + 1, count, T)

dtor_callback(drops, column, byte, count, T) ==
    dtor_callback_from(drops, column, byte, 0, count, T)

\* the addresses the loop of dtor_callback::<T>(ptr, count, _) drops a T at
dtor_callback_places(ptr, count) ==
    [k \in 1 .. count |-> c_void_offset(ptr, k - 1)]

\* copy_callback::<T>(dst, src, count, _): the writes of the loop, each the
\* address written and the value read from the source at the same offset
copy_callback(dst, src, column, count, T) ==
    [k \in 1 .. count |->
        [dst |-> c_void_offset(dst, k - 1),
         src |-> c_void_offset(src, k - 1),
         value |-> ObjectAt(column, c_void_offset(src, k - 1), size_of(T))]]

\* the engine runs the dtor hook of id on one row of a table
flecs_invoke_dtor(w, t, row, id) ==
    IF IsDataId(id) /\ hooks_dtor(ComponentType(id))
    THEN [w EXCEPT !.drops = dtor_callback(@, t.columns[id],
                                           (row - 1) * size_of(ComponentType(id)),
                                           1, ComponentType(id))]
    ELSE w

\* ... of every id of `ids`, in the order of the ids
RECURSIVE flecs_run_dtors(_, _, _, _)
flecs_run_dtors(w, t, row, ids) ==
    IF ids = {} THEN w
    ELSE LET id == CHOOSE x \in ids : \A y \in ids : x <= y
         IN flecs_run_dtors(flecs_invoke_dtor(w, t, row, id), t, row, ids \ {id})

NoRecord == [table |-> 0, row |-> 0]

\* the type info of an entity that is not a component
NoTypeInfo == [size |-> 0, alignment |-> 0, dtor |-> FALSE, copy |-> FALSE]

\* a row removal that leaves the record of the swapped-in entity as it was
flecs_remove_row_stale(w, e) ==
    LET r == w.record[Index(e)]
    IN [w EXCEPT !.tables[r.table] = flecs_table_delete_row(w.tables[r.table], r.row),
                 !.record[Index(e)] = NoRecord]

\* remove the row of entity e from its table, fixing the record of the
\* entity that is swapped into the vacated row
flecs_remove_row(w, e) ==
    LET r == w.record[Index(e)]
        t == w.tables[r.table]
        last == t.entities[Len(t.entities)]
        rec1 == IF r.row # Len(t.entities)
                THEN [w.record EXCEPT ![Index(last)] = [table |-> r.table, row |-> r.row]]
                ELSE w.record
    IN [w EXCEPT !.tables[r.table] = flecs_table_delete_row(t, r.row),
                 !.record = [rec1 EXCEPT ![Index(e)] = NoRecord]]

\* move entity e to the table of type dst_type; new columns take their
\* value from `init`, columns present on both sides keep their value
flecs_move_entity(w, e, dst_type, init) ==
    LET r == w.record[Index(e)]
        src == w.tables[r.table]
        vals == [id \in {x \in Range(dst_type) : IsDataId(x)} |->
                    IF id \in DOMAIN src.columns THEN src.columns[id][r.row] ELSE init]
        gone == {x \in DOMAIN src.columns : x \notin Range(dst_type)}
        w1 == flecs_remove_row(flecs_run_dtors(w, src, r.row, gone), e)
        tabs == flecs_table_ensure(w1.tables, dst_type)
        d == flecs_table_find(tabs, dst_type)
        dt == flecs_table_append(tabs[d], e, vals)
    IN [w1 EXCEPT !.tables = [tabs EXCEPT ![d] = dt],
                  !.record[Index(e)] = [table |-> d, row |-> Len(dt.entities)]]

ecs_is_alive(w, e) ==
    /\ Index(e) \in Indices
    /\ ~IsPair(e)
    /\ w.alive[Index(e)]
    /\ w.gens[Index(e)] = Gen(e)

\* the id that is alive on the index of `id`: the index with the generation
\* the world holds for it
ecs_get_alive(w, id) ==
    IF Index(id) \in Indices THEN EntityId(Index(id), w.gens[Index(id)]) ELSE Index(id)

ecs_get_type(w, e) == w.tables[w.record[Index(e)].table].type

ecs_has_id(w, e, id) == id \in Range(ecs_get_type(w, e))

\* the structural operations as the engine carries them out, at once or
\* when it flushes the command queue; junk is the value a column holds
\* when it is added without data
flecs_add_id(w, e, id, junk) ==
    IF ecs_has_id(w, e, id) THEN w
    ELSE flecs_move_entity(w, e, flecs_type_add(ecs_get_type(w, e), id), junk)

flecs_remove_id(w, e, id) ==
    IF ~ecs_has_id(w, e, id) THEN w
    ELSE flecs_move_entity(w, e, flecs_type_remove(ecs_get_type(w, e), id), 0)

flecs_set_id(w, e, id, v) ==
    LET w1 == flecs_add_id(w, e, id, v)
        r == w1.record[Index(e)]
    IN [w1 EXCEPT !.tables[r.table].columns[id][r.row] = v]

ecs_get_id(w, e, id) ==
    LET r == w.record[Index(e)]
    IN IF id \in DOMAIN w.tables[r.table].columns
       THEN w.tables[r.table].columns[id][r.row] ELSE 0

ecs_clear(w, e) ==
    IF ecs_get_type(w, e) = <<>> THEN w ELSE flecs_move_entity(w, e, <<>>, 0)

\* live entities whose type holds the pair (rel, target)
flecs_sources_of(w, rel, target) ==
    {ent \in UNION {Range(w.tables[i].entities) : i \in 1 .. Len(w.tables)} :
        ecs_make_pair(rel, target) \in Range(ecs_get_type(w, ent))}

RECURSIVE flecs_delete(_, _)
RECURSIVE flecs_delete_all(_, _)
\* the query objects that are associated with entity e are finalized with it
flecs_query_release(queries, e) ==
    [q \in DOMAIN queries |->
        IF queries[q].entity = e /\ queries[q].fini = 0
        THEN [queries[q] EXCEPT !.fini = 1] ELSE queries[q]]

flecs_delete_all(w, ents) ==
    IF ents = {} THEN w
    ELSE LET c == CHOOSE x \in ents : TRUE
         IN flecs_delete_all(flecs_delete(w, c), ents \ {c})

flecs_delete(w, e) ==
    IF ~ecs_is_alive(w, e) THEN w
    ELSE LET w1 == flecs_delete_all(w, flecs_sources_of(w, ChildOf, e))
             r == w1.record[Index(e)]
             t == w1.tables[r.table]
             w2 == flecs_remove_row(flecs_run_dtors(w1, t, r.row, DOMAIN t.columns), e)
         IN [w2 EXCEPT !.alive[Index(e)] = FALSE,
                       !.gens[Index(e)] = w.gens[Index(e)] + 1,
                       !.names[Index(e)] = <<>>,
                       !.symbols[Index(e)] = <<>>,
                       !.type_info[Index(e)] = NoTypeInfo,
                       !.queries = flecs_query_release(@, e)]

(***************************************************************************)
(* Defer mode of the engine.  w.defer counts the defer_begin calls that    *)
(* have not been matched by a defer_end, w.suspended tells that deferring  *)
(* is suspended, w.queue holds the commands recorded in submission order.  *)
(* While the world defers, add, remove, set and delete are recorded        *)
(* instead of carried out; the defer_end that brings the count back to 0   *)
(* carries the queue out in order.  A command whose entity is no longer    *)
(* alive when its turn comes is discarded.                                 *)
(***************************************************************************)
flecs_is_deferred(w) == w.defer > 0 /\ ~w.suspended

flecs_defer_cmd(w, cmd) == [w EXCEPT !.queue = Append(@, cmd)]

flecs_cmd(kind, e, id, v) == [kind |-> kind, entity |-> e, id |-> id, value |-> v]

flecs_run_cmd(w, cmd) ==
    IF ~ecs_is_alive(w, cmd.entity) THEN w
    ELSE CASE cmd.kind = "add" -> flecs_add_id(w, cmd.entity, cmd.id, cmd.value)
           [] cmd.kind = "remove" -> flecs_remove_id(w, cmd.entity, cmd.id)
           [] cmd.kind = "set" -> flecs_set_id(w, cmd.entity, cmd.id, cmd.value)
           [] OTHER -> flecs_delete(w, cmd.entity)

RECURSIVE flecs_defer_flush(_, _)
flecs_defer_flush(w, queue) ==
    IF queue = <<>> THEN w
    ELSE flecs_defer_flush(flecs_run_cmd(w, Head(queue)), Tail(queue))

ecs_defer_begin(w) ==
    IF w.suspended THEN w ELSE [w EXCEPT !.defer = @ + 1]

ecs_defer_end(w) ==
    IF w.suspended \/ w.defer = 0 THEN w
    ELSE IF w.defer > 1 THEN [w EXCEPT !.defer = @ - 1]
    ELSE flecs_defer_flush([w EXCEPT !.defer = 0, !.queue = <<>>], w.queue)

ecs_defer_suspend(w) ==
    IF flecs_is_deferred(w) THEN [w EXCEPT !.suspended = TRUE] ELSE w

ecs_defer_resume(w) == [w EXCEPT !.suspended = FALSE]

ecs_add_id(w, e, id, junk) ==
    IF flecs_is_deferred(w) THEN flecs_defer_cmd(w, flecs_cmd("add", e, id, junk))
    ELSE flecs_add_id(w, e, id, junk)

ecs_remove_id(w, e, id) ==
    IF flecs_is_deferred(w) THEN flecs_defer_cmd(w, flecs_cmd("remove", e, id, 0))
    ELSE flecs_remove_id(w, e, id)

ecs_set_id(w, e, id, v) ==
    IF flecs_is_deferred(w) THEN flecs_defer_cmd(w, flecs_cmd("set", e, id, v))
    ELSE flecs_set_id(w, e, id, v)

ecs_delete(w, e) ==
    IF flecs_is_deferred(w) THEN flecs_defer_cmd(w, flecs_cmd("delete", e, 0, 0))
    ELSE flecs_delete(w, e)

\* allocate an id on slot idx: a fresh slot or a recycled one, with the
\* generation the slot carries now, and store it in the empty table
ecs_entity_init(w, idx) ==
    LET e == EntityId(idx, w.gens[idx])
        t == flecs_table_append(w.tables[1], e, <<>>)
    IN [w EXCEPT !.alive[idx] = TRUE,
                 !.tables[1] = t,
                 !.record[idx] = [table |-> 1, row |-> Len(t.entities)]]

ecs_init ==
    [gens |-> [i \in Indices |-> 0],
     alive |-> [i \in Indices |-> FALSE],
     tables |-> <<flecs_table_new(<<>>)>>,
     record |-> [i \in Indices |-> NoRecord],
     systems |-> <<>>,
     names |-> [i \in Indices |-> <<>>],
     symbols |-> [i \in Indices |-> <<>>],
     type_info |-> [i \in Indices |-> NoTypeInfo],
     drops |-> <<>>,
     defer |-> 0,
     suspended |-> FALSE,
     queue |-> <<>>,
     disabled |-> {},
     queries |-> <<>>]

\* ecs_query_init: a new query object; w.queries holds, for every query
\* object, the entity of its descriptor (0: none) and how often it was
\* finalized.  The handle is the position in w.queries.
ecs_query_init(w, desc) ==
    [w EXCEPT !.queries = Append(@, [entity |-> desc.entity, fini |-> 0])]

\* ecs_query_fini
ecs_query_fini(w, query) == [w EXCEPT !.queries[query].fini = @ + 1]

\* ecs_enable: a soft toggle, the entity stays in its table; w.disabled holds
\* the disabled entities
ecs_enable(w, e, enabled) ==
    IF ~ecs_is_alive(w, e) THEN w
    ELSE [w EXCEPT !.disabled = IF enabled THEN @ \ {e} ELSE @ \cup {e}]

(***************************************************************************)
(* Names and paths of the engine.  A name is a sequence of characters      *)
(* without the separator; w.names holds the name of the entity on every    *)
(* slot (<<>>: none).  The scope of an entity is the target of its         *)
(* (ChildOf, target) pair, 0 standing for the root scope.  A path is the   *)
(* string of the names from the scope down, joined by the separator.       *)
(***************************************************************************)
Sep == "."
Alphabet == {"a", "b"}
Names == UNION {[1 .. n -> Alphabet] : n \in 1 .. MaxNameLen}

\* the entity the (ChildOf, target) pair of e points at, 0 at the root
flecs_parent_of(w, e) ==
    LET ps == {p \in Indices : ecs_make_pair(ChildOf, p) \in Range(ecs_get_type(w, e))}
    IN IF ps = {} THEN 0
       ELSE LET p == CHOOSE x \in ps : TRUE IN EntityId(p, w.gens[p])

\* the live entities in the scope `parent`
flecs_children(w, parent) ==
    {EntityId(i, w.gens[i]) : i \in {j \in Indices : w.alive[j]
        /\ flecs_parent_of(w, EntityId(j, w.gens[j])) = parent}}

\* the entity of that name in the scope, 0 when there is none
flecs_child_named(w, parent, name) ==
    LET cs == {c \in flecs_children(w, parent) : w.names[Index(c)] = name}
    IN IF cs = {} THEN 0 ELSE CHOOSE c \in cs : TRUE

\* the path cut at its separators
RECURSIVE flecs_path_elems(_, _, _)
flecs_path_elems(path, sep, elem) ==
    IF path = <<>> THEN <<elem>>
    ELSE IF Head(path) = sep THEN <<elem>> \o flecs_path_elems(Tail(path), sep, <<>>)
    ELSE flecs_path_elems(Tail(path), sep, Append(elem, Head(path)))

\* follow the elements down from the scope, 0 when one is missing
RECURSIVE flecs_lookup_elems(_, _, _)
flecs_lookup_elems(w, scope, elems) ==
    IF elems = <<>> THEN scope
    ELSE LET c == flecs_child_named(w, scope, Head(elems))
         IN IF c = 0 THEN 0 ELSE flecs_lookup_elems(w, c, Tail(elems))

\* look the path up in the scope `parent`; when `recursive`, a path not
\* found there is looked up in the scopes above it
RECURSIVE ecs_lookup_path_w_sep(_, _, _, _, _)
ecs_lookup_path_w_sep(w, parent, path, sep, recursive) ==
    LET found == flecs_lookup_elems(w, parent, flecs_path_elems(path, sep, <<>>))
    IN IF found # 0 THEN found
       ELSE IF recursive /\ parent # 0
       THEN ecs_lookup_path_w_sep(w, flecs_parent_of(w, parent), path, sep, recursive)
       ELSE 0

ecs_lookup(w, path) == ecs_lookup_path_w_sep(w, 0, path, Sep, TRUE)

\* the path of child relative to the scope `parent` (0: from the root)
RECURSIVE ecs_get_path_w_sep(_, _, _, _)
ecs_get_path_w_sep(w, parent, child, sep) ==
    LET up == flecs_parent_of(w, child)
    IN IF up = 0 \/ up = parent THEN w.names[Index(child)]
       ELSE ecs_get_path_w_sep(w, parent, up, sep) \o <<sep>> \o w.names[Index(child)]

\* ecs_entity_init with a name: the entity of that name in the root scope
\* when there is one, a new entity carrying the name otherwise
ecs_entity_init_named(w, idx, name) ==
    IF flecs_child_named(w, 0, name) # 0 THEN w
    ELSE [ecs_entity_init(w, idx) EXCEPT !.names[idx] = name]

(***************************************************************************)
(* Component registry of the engine.  w.symbols holds the symbol of the    *)
(* entity on every slot (<<>>: none), w.type_info the size, alignment and  *)
(* hooks of a component entity.                                            *)
(***************************************************************************)
\* the live entity carrying the symbol, 0 when there is none
ecs_lookup_symbol(w, symbol) ==
    LET es == {i \in Indices : w.alive[i] /\ w.symbols[i] = symbol}
    IN IF es = {} THEN 0
       ELSE LET i == CHOOSE x \in es : TRUE IN EntityId(i, w.gens[i])

\* ecs_entity_init with a name and a symbol: the entity of that name in the
\* root scope when there is one (it takes the symbol when it has none), a
\* new entity on slot idx otherwise
ecs_entity_init_desc(w, idx, desc) ==
    LET found == IF desc.name = <<>> THEN 0 ELSE flecs_child_named(w, 0, desc.name)
    IN IF found # 0
       THEN [w EXCEPT !.symbols[Index(found)] = IF @ = <<>> THEN desc.symbol ELSE @]
       ELSE [ecs_entity_init(w, idx) EXCEPT !.names[idx] = desc.name,
                                            !.symbols[idx] = desc.symbol]

\* the id ecs_entity_init returns for that descriptor, called on w
flecs_entity_init_result(w, idx, desc) ==
    LET found == IF desc.name = <<>> THEN 0 ELSE flecs_child_named(w, 0, desc.name)
    IN IF found # 0 THEN found ELSE EntityId(idx, w.gens[idx])

\* a second registration of a component entity with another size or
\* alignment is a conflict
flecs_component_conflict(w, cdesc) ==
    /\ cdesc.entity # 0
    /\ w.type_info[Index(cdesc.entity)] # NoTypeInfo
    /\ \/ w.type_info[Index(cdesc.entity)].size # cdesc.type_.size
       \/ w.type_info[Index(cdesc.entity)].alignment # cdesc.type_.alignment

\* the world after ecs_component_init
ecs_component_init(w, cdesc) ==
    IF cdesc.entity = 0 \/ flecs_component_conflict(w, cdesc) THEN w
    ELSE [w EXCEPT !.type_info[Index(cdesc.entity)] = cdesc.type_]

\* the id ecs_component_init returns, 0 when it fails
flecs_component_init_result(w, cdesc) ==
    IF cdesc.entity = 0 \/ flecs_component_conflict(w, cdesc) THEN 0 ELSE cdesc.entity

(***************************************************************************)
(* Query engine.  A query is a sequence of term slots; a slot is           *)
(*   [oper |-> "And" | "Not" | "Optional" | "Or", ids |-> <<id, ...>>]      *)
(* where an Or slot lists the ids of its group and the others hold one id. *)
(* An iterator walks the tables in the order they were created.            *)
(***************************************************************************)
flecs_term_matches(type, term) ==
    IF term.oper = "And" THEN term.ids[1] \in Range(type)
    ELSE IF term.oper = "Not" THEN term.ids[1] \notin Range(type)
    ELSE IF term.oper = "Or" THEN \E i \in 1 .. Len(term.ids) : term.ids[i] \in Range(type)
    ELSE TRUE

flecs_table_matches(t, query) ==
    /\ Len(t.entities) > 0
    /\ \A i \in 1 .. Len(query) : flecs_term_matches(t.type, query[i])

\* the id a term slot resolved to for this table: for an Or slot the first
\* id of the group the table has
flecs_term_id(type, term) ==
    IF term.oper = "Or" /\ flecs_term_matches(type, term)
    THEN term.ids[CHOOSE i \in 1 .. Len(term.ids) :
                     /\ term.ids[i] \in Range(type)
                     /\ \A j \in 1 .. (i - 1) : term.ids[j] \notin Range(type)]
    ELSE term.ids[1]

flecs_term_is_set(type, term) ==
    IF term.oper = "Not" THEN FALSE
    ELSE IF term.oper = "Optional" THEN term.ids[1] \in Range(type)
    ELSE TRUE

ecs_query_iter(w, query) ==
    [query |-> query, table |-> 0, valid |-> FALSE,
     count |-> 0, entities |-> <<>>, ids |-> <<>>, set |-> <<>>]

\* the tables after the iterator's current one that match its query
flecs_tables_ahead(w, it) ==
    {i \in (it.table + 1) .. Len(w.tables) : flecs_table_matches(w.tables[i], it.query)}

ecs_query_next(w, it) ==
    IF flecs_tables_ahead(w, it) = {}
    THEN [it EXCEPT !.valid = FALSE, !.table = Len(w.tables),
                    !.count = 0, !.entities = <<>>]
    ELSE LET n == CHOOSE i \in flecs_tables_ahead(w, it) :
                      \A j \in flecs_tables_ahead(w, it) : i <= j
             t == w.tables[n]
         IN [it EXCEPT !.valid = TRUE, !.table = n,
                       !.count = Len(t.entities), !.entities = t.entities,
                       !.ids = [k \in 1 .. Len(it.query) |-> flecs_term_id(t.type, it.query[k])],
                       !.set = [k \in 1 .. Len(it.query) |-> flecs_term_is_set(t.type, it.query[k])]]

\* field indexes count from 0
ecs_field_id(it, index) == it.ids[index + 1]

\* no field is set while the iterator is on no table
ecs_field_is_set(it, index) == (index + 1) \in DOMAIN it.set /\ it.set[index + 1]

\* the column of the current table that holds the field (<<>>: null)
ecs_field_w_size(w, it, size, index) ==
    IF ecs_field_id(it, index) \in DOMAIN w.tables[it.table].columns
    THEN w.tables[it.table].columns[ecs_field_id(it, index)]
    ELSE <<>>

\* every term of the queries here is matched on the entities of the table
ecs_field_is_self(it, index) == TRUE

(***************************************************************************)
(* Scheduler of the engine.  w.systems lists the systems in registration   *)
(* order with their rate filter.  The pipeline holds the systems whose     *)
(* entity depends on a phase, ordered by phase and then by registration.   *)
(***************************************************************************)
\* the phase a built-in phase depends on (0: none)
flecs_phase_depends_on(p) ==
    IF p = OnStore THEN OnUpdate ELSE IF p = OnUpdate THEN OnLoad ELSE 0

RECURSIVE flecs_phase_depth(_)
flecs_phase_depth(p) ==
    IF flecs_phase_depends_on(p) = 0 THEN 0
    ELSE 1 + flecs_phase_depth(flecs_phase_depends_on(p))

\* the phases the entity depends on
flecs_phases_of(w, e) ==
    {p \in Phases : ecs_has_id(w, e, ecs_make_pair(DependsOn, p))}

flecs_in_pipeline(w, e) ==
    /\ ecs_is_alive(w, e)
    /\ ecs_has_id(w, e, System)
    /\ flecs_phases_of(w, e) # {}

flecs_system_depth(w, e) ==
    CHOOSE d \in 0 .. 2 :
        /\ \E p \in flecs_phases_of(w, e) : flecs_phase_depth(p) = d
        /\ \A p \in flecs_phases_of(w, e) : flecs_phase_depth(p) <= d

RECURSIVE flecs_pipeline_from(_, _)
flecs_pipeline_from(w, depth) ==
    IF depth > 2 THEN <<>>
    ELSE SelectSeq(w.systems,
                   LAMBDA s : flecs_in_pipeline(w, s.entity)
                              /\ flecs_system_depth(w, s.entity) = depth)
         \o flecs_pipeline_from(w, depth + 1)

flecs_pipeline(w) == flecs_pipeline_from(w, 0)

\* one tick of a rate filter
flecs_rate_tick(s) ==
    IF s.rate = 0 THEN s
    ELSE [s EXCEPT !.tick_count = IF (s.tick_count + 1) % s.rate = 0 THEN 0
                                  ELSE s.tick_count + 1]

\* after the tick: does the system run in this frame
flecs_rate_triggered(s) == s.rate = 0 \/ s.tick_count = 0

ecs_system_init(w, desc) ==
    LET w1 == ecs_add_id(w, desc.entity, System, 0)
    IN [w1 EXCEPT !.systems = Append(@, [entity |-> desc.entity,
                                         rate |-> desc.rate,
                                         tick_count |-> 0])]

\* the world after one frame
ecs_progress(w) ==
    [w EXCEPT !.systems = [i \in 1 .. Len(w.systems) |-> flecs_rate_tick(w.systems[i])]]

\* the systems one frame runs, in the order it runs them
ecs_progress_runs(w) ==
    LET w1 == ecs_progress(w)
        due == SelectSeq(flecs_pipeline(w1), flecs_rate_triggered)
    IN [i \in 1 .. Len(due) |-> due[i].entity]

(***************************************************************************)
(* The binding: EntityView and World (src/src/entity.rs, src/src/world.rs) *)
(***************************************************************************)
\* IdFetcher for Entity, EntityView and ComponentView: the id itself
retrieve_id(id) == id

\* IdFetcher for a (relationship, target) tuple
retrieve_pair_id(first, second) == ecs_make_pair(retrieve_id(first), retrieve_id(second))

World_entity(w, idx) == ecs_entity_init(w, idx)

EntityView_is_alive(w, e) == ecs_is_alive(w, e)

World_entity_named(w, idx, name) == ecs_entity_init_named(w, idx, name)

\* World::lookup; 0 stands for None
World_lookup(w, name) == ecs_lookup(w, name)

EntityView_path(w, e) == ecs_get_path_w_sep(w, 0, e, Sep)

EntityView_lookup_from_root(w, e, path) == ecs_lookup_path_w_sep(w, 0, path, Sep, TRUE)

\* EntityView::lookup; 0 stands for None
EntityView_lookup(w, e, path) == ecs_lookup_path_w_sep(w, e, path, Sep, TRUE)

EntityView_has(w, e, id) == ecs_has_id(w, e, retrieve_id(id))

EntityView_add_dropped(w, e, id, junk) == w

EntityView_add(w, e, id, junk) == ecs_add_id(w, e, retrieve_id(id), junk)

\* set_comp without ManuallyDrop: `data` is dropped when the call returns
EntityView_set_comp_dropping(w, e, comp, data) ==
    [ecs_set_id(w, e, retrieve_id(comp), data) EXCEPT !.drops = Append(@, data)]

\* `data` is moved into a ManuallyDrop and its bytes are handed to the
\* engine: the call itself drops nothing
EntityView_set_comp(w, e, comp, data) == ecs_set_id(w, e, retrieve_id(comp), data)

EntityView_remove_dropped(w, e, id) == w

EntityView_remove(w, e, id) == ecs_remove_id(w, e, retrieve_id(id))

EntityView_clear(w, e) == ecs_clear(w, e)

EntityView_delete_as_clear(w, e) == ecs_clear(w, e)

EntityView_delete(w, e) == ecs_delete(w, e)

\* EntityView::enable
EntityView_enable(w, e) == ecs_enable(w, e, TRUE)

EntityView_disable_as_clear(w, e) == ecs_clear(w, e)

\* EntityView::disable
EntityView_disable(w, e) == ecs_enable(w, e, FALSE)

EntityView_set_first_swapped(w, e, first, second, data) ==
    ecs_set_id(w, e, ecs_make_pair(retrieve_id(second), retrieve_id(first)), data)

\* EntityView::set_first::<F>(first, second): the pair (F, second) with the
\* data of F
EntityView_set_first(w, e, first, second, data) ==
    ecs_set_id(w, e, ecs_make_pair(retrieve_id(first), retrieve_id(second)), data)

\* EntityView::set_second::<F>(first, second): the pair (first, F) with the
\* data of F
EntityView_set_second(w, e, first, second, data) ==
    ecs_set_id(w, e, ecs_make_pair(retrieve_id(first), retrieve_id(second)), data)

\* EntityView::get::<T>: the value, 0 standing for None
EntityView_get(w, e, comp) ==
    IF ecs_has_id(w, e, retrieve_id(comp)) THEN ecs_get_id(w, e, retrieve_id(comp)) ELSE 0

World_defer_begin_dropped(w) == w

World_defer_begin(w) == ecs_defer_begin(w)

World_defer_end_as_begin(w) == ecs_defer_begin(w)

World_defer_end(w) == ecs_defer_end(w)

World_defer_suspend_dropped(w) == w

World_defer_suspend(w) == ecs_defer_suspend(w)

World_defer_resume(w) == ecs_defer_resume(w)

(***************************************************************************)
(* The binding: World and the component registration (src/src/world.rs).   *)
(* A World is [ptr, owned, component_map, map_owned]; ptr and              *)
(* component_map are addresses: `st.ecs` holds the engine worlds and       *)
(* `st.maps` the leaked component maps, `st.structs` the World values.     *)
(* A component map gives the id of every type, 0 for a type it does not    *)
(* hold.                                                                   *)
(***************************************************************************)
\* component types of the tests: Foo (singleton.rs), FooBar and Likes
\* (mod.rs), Dropper (drop.rs)
Types == {"Foo", "FooBar", "Likes"}

align_of(T) == IF T = "Likes" THEN 1 ELSE 8

IS_TAG(T) == size_of(T) = 0

\* the types that derive Clone
IsClone(T) == T = "Foo"

Symbols == {<<"a">>, <<"b">>}

EmptyMap == [T \in Types |-> 0]

World_default_shared_map(st) ==
    [st EXCEPT !.structs = Append(@, [ptr |-> Len(st.ecs) + 1, owned |-> TRUE,
                                      component_map |-> 1, map_owned |-> TRUE]),
               !.ecs = Append(@, ecs_init),
               !.maps = IF st.maps = <<>> THEN <<EmptyMap>> ELSE st.maps]

World_default(st) ==
    [st EXCEPT !.structs = Append(@, [ptr |-> Len(st.ecs) + 1, owned |-> TRUE,
                                      component_map |-> Len(st.maps) + 1,
                                      map_owned |-> TRUE]),
               !.ecs = Append(@, ecs_init),
               !.maps = Append(@, EmptyMap)]

\* World::from_ptr: a World over an engine world it does not own, with a
\* new component map of its own
World_from_ptr(st, ptr) ==
    [st EXCEPT !.structs = Append(@, [ptr |-> ptr, owned |-> FALSE,
                                      component_map |-> Len(st.maps) + 1,
                                      map_owned |-> TRUE]),
               !.maps = Append(@, EmptyMap)]

World_from_ptr_and_map_owning(st, ptr, component_map) ==
    [st EXCEPT !.structs = Append(@, [ptr |-> ptr, owned |-> FALSE,
                                      component_map |-> component_map,
                                      map_owned |-> TRUE])]

\* World::from_ptr_and_map; both pointers are not null
World_from_ptr_and_map(st, ptr, component_map) ==
    [st EXCEPT !.structs = Append(@, [ptr |-> ptr, owned |-> FALSE,
                                      component_map |-> component_map,
                                      map_owned |-> FALSE])]

\* the iterator Query::iter makes for a query of World `self`: its world
\* and, as binding_ctx, the component map of the query
Query_iter_ctx(st, self) ==
    [world |-> st.structs[self].ptr, binding_ctx |-> st.structs[self].component_map]

\* Iter::world
Iter_world(st, iter) == World_from_ptr_and_map(st, iter.world, iter.binding_ctx)

\* Drop for World: st.freed logs the component maps freed and st.fini the
\* engine worlds finalised, in order
World_drop(st, self, panicking) ==
    IF panicking THEN st
    ELSE LET w == st.structs[self]
             st1 == IF w.map_owned THEN [st EXCEPT !.freed = Append(@, w.component_map)]
                    ELSE st
         IN IF ~w.owned THEN st1
            ELSE [st1 EXCEPT !.fini = Append(@, w.ptr)]

World_lookup_symbol(w, name) == ecs_lookup_symbol(w, name)

\* the outcome of a registration: the state after it and the id of the
\* ComponentView it returns, or a panic
Panicked(st) == [st |-> st, id |-> 0, panic |-> TRUE]

\* component_map.insert(TypeId::of::<T>(), id), then the view is returned
ComponentView(st, self, T, id) ==
    [st |-> [st EXCEPT !.maps[st.structs[self].component_map][T] = id],
     id |-> id, panic |-> FALSE]

World_tag_anonymous(st, self, T, symbol, idx) ==
    IF ~IS_TAG(T) THEN Panicked(st)
    ELSE LET w == st.ecs[st.structs[self].ptr]
             edesc == [name |-> <<>>, symbol |-> symbol, use_low_id |-> TRUE]
             id == flecs_entity_init_result(w, idx, edesc)
             st1 == [st EXCEPT !.ecs[st.structs[self].ptr] = ecs_entity_init_desc(w, idx, edesc)]
         IN ComponentView(st1, self, T, id)

World_tag(st, self, T, symbol, idx) ==
    IF ~IS_TAG(T) THEN Panicked(st)
    ELSE LET w == st.ecs[st.structs[self].ptr]
         IN IF World_lookup_symbol(w, symbol) # 0
            THEN ComponentView(st, self, T, World_lookup_symbol(w, symbol))
            ELSE LET edesc == [name |-> symbol, symbol |-> symbol, use_low_id |-> TRUE]
                     id == flecs_entity_init_result(w, idx, edesc)
                     st1 == [st EXCEPT !.ecs[st.structs[self].ptr] =
                                           ecs_entity_init_desc(w, idx, edesc)]
                 IN IF id = 0 THEN Panicked(st1) ELSE ComponentView(st1, self, T, id)

\* the part of component and component_clone that registers in the engine
RegisterComponent(st, self, T, symbol, idx, copy) ==
    LET w == st.ecs[st.structs[self].ptr]
        edesc == [name |-> symbol, symbol |-> symbol, use_low_id |-> TRUE]
        w1 == ecs_entity_init_desc(w, idx, edesc)
        cdesc == [entity |-> flecs_entity_init_result(w, idx, edesc),
                  type_ |-> [size |-> size_of(T), alignment |-> align_of(T),
                             dtor |-> hooks_dtor(T), copy |-> copy]]
        id == flecs_component_init_result(w1, cdesc)
        st1 == [st EXCEPT !.ecs[st.structs[self].ptr] = ecs_component_init(w1, cdesc)]
    IN IF id = 0 THEN Panicked(st1) ELSE ComponentView(st1, self, T, id)

World_component(st, self, T, symbol, idx) ==
    IF IS_TAG(T) THEN World_tag(st, self, T, symbol, idx)
    ELSE LET w == st.ecs[st.structs[self].ptr]
         IN IF World_lookup_symbol(w, symbol) # 0
            THEN ComponentView(st, self, T, World_lookup_symbol(w, symbol))
            ELSE RegisterComponent(st, self, T, symbol, idx, FALSE)

World_component_clone(st, self, T, symbol, idx) ==
    LET w == st.ecs[st.structs[self].ptr]
    IN IF World_lookup(w, symbol) # 0
       THEN ComponentView(st, self, T, World_lookup(w, symbol))
       ELSE RegisterComponent(st, self, T, symbol, idx, TRUE)

\* comp::<T>() and tag::<T>() as IdFetcher: the id the map of that world
\* holds for T, a panic when it holds none
CompId_retrieve_id_any_map(st, self, T) ==
    IF \E m \in 1 .. Len(st.maps) : st.maps[m][T] # 0
    THEN [id |-> st.maps[CHOOSE m \in 1 .. Len(st.maps) : st.maps[m][T] # 0][T],
          panic |-> FALSE]
    ELSE [id |-> 0, panic |-> TRUE]

CompId_retrieve_id(st, self, T) ==
    LET map == st.maps[st.structs[self].component_map]
    IN IF map[T] = 0 THEN [id |-> 0, panic |-> TRUE]
       ELSE [id |-> map[T], panic |-> FALSE]

\* World::singleton::<T>: the entity of the component itself, or a panic
World_singleton(st, self, T) == CompId_retrieve_id(st, self, T)

\* World::singleton_get::<T>; 0 stands for None
World_singleton_get(st, self, T) ==
    LET id == World_singleton(st, self, T).id
    IN EntityView_get(st.ecs[st.structs[self].ptr], id, CompId_retrieve_id(st, self, T).id)

\* World::singleton_set::<T>(data)
World_singleton_set(st, self, T, data) ==
    LET id == World_singleton(st, self, T).id
    IN [st EXCEPT !.ecs[st.structs[self].ptr] =
            EntityView_set_comp(@, id, CompId_retrieve_id(st, self, T).id, data)]

World_singleton_remove_dropped(st, self, T) == st

\* World::singleton_remove::<T>(id::<T>())
World_singleton_remove(st, self, T) ==
    LET id == World_singleton(st, self, T).id
    IN [st EXCEPT !.ecs[st.structs[self].ptr] =
            EntityView_remove(@, id, CompId_retrieve_id(st, self, T).id)]

\* World::singleton_exists::<T>(id::<T>())
World_singleton_exists(st, self, T) ==
    LET id == World_singleton(st, self, T).id
    IN EntityView_has(st.ecs[st.structs[self].ptr], id, CompId_retrieve_id(st, self, T).id)

(***************************************************************************)
(* The binding: Query and Iter (src/src/query.rs, src/src/query/iter.rs)   *)
(***************************************************************************)
Query_iter(w, query) == ecs_query_iter(w, query)

\* World::query: a builder around ecs_query_desc_t::default()
World_query == [inner |-> [entity |-> 0]]

\* QueryBuilder::build: the world and the Query value
QueryBuilder_build(w, self) ==
    LET w1 == ecs_query_init(w, self.inner)
    IN [world |-> w1, query |-> [query |-> Len(w1.queries), entity_id |-> 0]]

\* QueryBuilder::build_with_entity; idx is the slot World::entity takes,
\* entity_id 0 stands for None
QueryBuilder_build_with_entity(w, self, idx) ==
    LET entity_id == EntityId(idx, w.gens[idx])
        w1 == ecs_query_init(World_entity(w, idx), self.inner)
    IN [world |-> w1, query |-> [query |-> Len(w1.queries), entity_id |-> entity_id]]

\* Drop for Query
Query_drop(w, self, panicking) ==
    IF panicking THEN w
    ELSE IF self.entity_id # 0 THEN w
    ELSE ecs_query_fini(w, self.query)

\* an advance that starts over from the first table
Iter_advance_restarting(w, it) == ecs_query_next(w, [it EXCEPT !.table = 0])

\* Iter::advance: the iterator after the call; advance returns its `valid`
Iter_advance(w, it) == ecs_query_next(w, it)

Iter_check_id_first_field(it, id, index) == retrieve_id(id) = ecs_field_id(it, 0)

Iter_check_id(it, id, index) == retrieve_id(id) = ecs_field_id(it, index)

Iter_has_first_field(it, index) == ecs_field_is_set(it, 0)

Iter_has(it, index) == ecs_field_is_set(it, index)

\* Option<Field<T>>: None, or Some(Field {cache_field, length, is_on_self});
\* panic: the call does not return
NoField ==
    [panic |-> FALSE, some |-> FALSE, cache_field |-> <<>>, length |-> 0,
     is_on_self |-> FALSE]

\* Iter::get without the const block
Iter_get_any_type(w, it, T, index) ==
    IF ~ecs_field_is_set(it, index) THEN NoField
    ELSE [panic |-> FALSE, some |-> TRUE,
          cache_field |-> ecs_field_w_size(w, it, size_of(T), index),
          length |-> it.count,
          is_on_self |-> ecs_field_is_self(it, index)]

\* Iter::get::<T>(index); the const block panics for a tag type when the
\* call is instantiated, before any check of the iterator
Iter_get(w, it, T, index) ==
    IF IS_TAG(T) THEN [NoField EXCEPT !.panic = TRUE]
    ELSE IF ~ecs_field_is_set(it, index) THEN NoField
    ELSE [panic |-> FALSE, some |-> TRUE,
          cache_field |-> ecs_field_w_size(w, it, size_of(T), index),
          length |-> it.count,
          is_on_self |-> ecs_field_is_self(it, index)]

\* what a read of element `index` (from 0) of an array of `array` can
\* give: the element, or for the slot right after the last element
\* whatever the memory behind the array holds
ReadAt(array, index, behind) ==
    IF index < Len(array) THEN {array[index + 1]} ELSE behind \cup {Garbage}

\* Index for Field: the outcomes of field[index]; a panic or a value
Field_index(field, index, behind) ==
    IF index > field.length THEN {[panic |-> TRUE, value |-> 0]}
    ELSE IF field.is_on_self
    THEN {[panic |-> FALSE, value |-> v] : v \in ReadAt(field.cache_field, index, behind)}
    ELSE {[panic |-> FALSE, value |-> v] : v \in ReadAt(field.cache_field, 0, behind)}

\* IndexMut for Field: the outcomes of &mut field[index]
Field_index_mut(field, index, behind) ==
    IF index > field.length THEN {[panic |-> TRUE, value |-> 0]}
    ELSE IF field.is_on_self
    THEN {[panic |-> FALSE, value |-> v] : v \in ReadAt(field.cache_field, index, behind)}
    ELSE {[panic |-> FALSE, value |-> v] : v \in ReadAt(field.cache_field, 0, behind)}

\* Iter::entity(index): the outcomes; None or Some(entity)
Iter_entity(it, index, behind) ==
    IF index > it.count THEN {[some |-> FALSE, entity |-> 0]}
    ELSE {[some |-> TRUE, entity |-> e] : e \in ReadAt(it.entities, index, behind)}

Iter_count_short(it) == IF it.count > 0 THEN it.count - 1 ELSE 0

Iter_count(it) == it.count

(***************************************************************************)
(* The binding: SystemBuilder (src/src/system.rs)                          *)
(***************************************************************************)
World_system == [kind |-> 0, inner |-> [rate |-> 0, entity |-> 0]]

SystemBuilder_kind_ignored(b, id) == b

SystemBuilder_kind(b, id) == [b EXCEPT !.kind = retrieve_id(id)]

SystemBuilder_rate(b, rate) == [b EXCEPT !.inner.rate = rate]

SystemBuilder_build(w, b, idx) ==
    LET entity == EntityId(idx, w.gens[idx])
        w1 == World_entity(w, idx)
        w2 == IF b.kind # 0
              THEN EntityView_add(w1, entity, retrieve_pair_id(DependsOn, b.kind), 0)
              ELSE w1
    IN ecs_system_init(w2, [b.inner EXCEPT !.entity = entity])

SystemBuilder_build_named(w, b, idx) ==
    LET entity == EntityId(idx, w.gens[idx])
        w1 == World_entity(w, idx)
        w2 == IF b.kind # 0
              THEN EntityView_add(w1, entity, retrieve_pair_id(DependsOn, b.kind), 0)
              ELSE EntityView_add(w1, entity, retrieve_pair_id(DependsOn, OnUpdate), 0)
    IN ecs_system_init(w2, [b.inner EXCEPT !.entity = entity])

World_progress(w) == ecs_progress(w)

(***************************************************************************)
(* State.                                                                  *)
(*   world    the engine state behind World::ptr                           *)
(*   idset    for every slot, the ids the application has put on the       *)
(*            entity living there (add/set minus remove), kept by plain    *)
(*            set algebra                                                  *)
(*   deleted  the entity ids delete() was called on                        *)
(*   last     the last operation and what it started from                  *)
(*   declared the systems the application built, in the order it built     *)
(*            them: entity, the kind and rate given to the builder,        *)
(*            whether build_named was used, and the number of frames       *)
(*            run before                                                   *)
(*   frames   for every progress call so far, the systems it ran, in order *)
(*   worlds   the World values the application holds, with the engine      *)
(*            worlds and the component maps they point at; the component   *)
(*            maps freed and the engine worlds finalised so far; and, for  *)
(*            the World values whose life is followed, how each was made   *)
(*            and whether it has been dropped                              *)
(*   reglog   for every World and symbol, the id and the type of the first *)
(*            registration under that symbol, and the types registered in  *)
(*            every World                                                  *)
(*   section  the defer calls of the application: the number of open       *)
(*            defer_begin calls, whether deferring is suspended, whether   *)
(*            it has been resumed since, and the mutations submitted for   *)
(*            deferral that defer_end has not yet carried out              *)
(***************************************************************************)
VARIABLES world, idset, deleted, last, declared, frames, worlds, reglog, section,
          held

vars == <<world, idset, deleted, last, declared, frames, worlds, reglog, section,
          held>>

sched_vars == <<declared, frames>>

reg_vars == <<worlds, reglog>>

WorldIds == 1 .. MaxWorlds

LiveIds(w) == {EntityId(i, w.gens[i]) : i \in {j \in Indices : w.alive[j]}}

\* slots World::entity may hand out: the lowest slot never used, or any
\* slot freed by a delete (a slot is reused `recycle` times at most)
FreeSlots(w, slots, recycle) ==
    LET fresh == {i \in slots : ~w.alive[i] /\ w.gens[i] = 0}
        recycled == {i \in slots : ~w.alive[i] /\ w.gens[i] > 0 /\ w.gens[i] <= recycle}
    IN recycled \cup {i \in fresh : \A j \in fresh : i <= j}

\* parent slots reachable from slot i through ChildOf pairs in `ids`
RECURSIVE Ancestors(_, _, _)
Ancestors(ids, i, fuel) ==
    IF fuel = 0 THEN {}
    ELSE LET ps == {p \in Indices : ecs_make_pair(ChildOf, p) \in ids[i]}
         IN ps \cup UNION {Ancestors(ids, p, fuel - 1) : p \in ps}

\* slots whose entity is below slot i in the ChildOf hierarchy
Descendants(ids, i) == {c \in Indices : i \in Ancestors(ids, c, MaxEntities)}

\* the table sequence stays within the model's bound
WithinBounds(w) == Len(w.tables) <= MaxTables

NoOp == [op |-> "none"]

NoSection == [depth |-> 0, suspended |-> FALSE, resumed |-> FALSE, pending |-> <<>>]

Init ==
    /\ world = ecs_init
    /\ idset = [i \in Indices |-> {}]
    /\ deleted = {}
    /\ last = NoOp
    /\ declared = <<>>
    /\ frames = <<>>
    /\ worlds = [structs |-> <<>>, ecs |-> <<>>, maps |-> <<>>,
                 freed |-> <<>>, fini |-> <<>>, life |-> <<>>]
    /\ reglog = [first |-> [k \in WorldIds |-> [sym \in Symbols |-> 0]],
                 type |-> [k \in WorldIds |-> [sym \in Symbols |-> ""]],
                 types |-> {}]
    /\ section = NoSection
    /\ held = <<>>

EntityStep(idx) ==
    /\ world' = World_entity(world, idx)
    /\ idset' = [idset EXCEPT ![idx] = {}]
    /\ last' = NoOp
    /\ UNCHANGED <<deleted, sched_vars, reg_vars, section, held>>

\* World::entity
CreateEntity ==
    \E idx \in FreeSlots(world, StoreSlots, MaxGen - 1) : EntityStep(idx)

\* World::entity, in a world whose slots are not reused
CreateTreeEntity ==
    \E idx \in FreeSlots(world, TreeSlots, 0) : EntityStep(idx)

AddStep(e, id, junk) ==
    /\ world' = EntityView_add(world, e, id, junk)
    /\ WithinBounds(world')
    /\ idset' = [idset EXCEPT ![Index(e)] = @ \cup {id}]
    /\ last' = IF id \in idset[Index(e)] THEN NoOp
               ELSE [op |-> "add", e |-> e, id |-> id,
                     table |-> world.record[Index(e)].table,
                     ids |-> idset[Index(e)]]
    /\ UNCHANGED <<deleted, sched_vars, reg_vars, section, held>>

\* EntityView::add with a tag
AddTag ==
    \E e \in LiveIds(world), id \in TagIds : AddStep(e, id, 0)

\* EntityView::add with a data component: the new column slot is not
\* initialised, it holds whatever the storage held
AddData ==
    \E e \in LiveIds(world), id \in DataIds, junk \in Values : AddStep(e, id, junk)

\* EntityView::add with a (ChildOf, parent) pair, on an entity without a
\* parent; the hierarchy is acyclic
AddChildOf ==
    \E e \in LiveIds(world), p \in LiveIds(world) :
        /\ Index(p) # Index(e)
        /\ idset[Index(e)] = {}
        /\ Index(e) \notin Ancestors(idset, Index(p), MaxEntities)
        /\ AddStep(e, retrieve_pair_id(ChildOf, p), 0)

\* EntityView::set_comp
SetComp ==
    \E e \in LiveIds(world), id \in DataIds, v \in Values :
        /\ world' = EntityView_set_comp(world, e, id, v)
        /\ WithinBounds(world')
        /\ idset' = [idset EXCEPT ![Index(e)] = @ \cup {id}]
        /\ last' = NoOp
        /\ UNCHANGED <<deleted, sched_vars, reg_vars, section, held>>

\* EntityView::remove
Remove ==
    \E e \in LiveIds(world), id \in TagIds \cup DataIds :
        LET trip == /\ last.op = "add"
                    /\ last.e = e
                    /\ last.id = id
        IN /\ world' = EntityView_remove(world, e, id)
           /\ WithinBounds(world')
           /\ idset' = [idset EXCEPT ![Index(e)] = @ \ {id}]
           /\ last' = IF trip
                      THEN [op |-> "trip", e |-> e, id |-> id,
                            table |-> last.table, ids |-> last.ids]
                      ELSE NoOp
           /\ UNCHANGED <<deleted, sched_vars, reg_vars, section, held>>

\* EntityView::clear
Clear ==
    \E e \in LiveIds(world) :
        /\ idset[Index(e)] # {}
        /\ world' = EntityView_clear(world, e)
        /\ idset' = [idset EXCEPT ![Index(e)] = {}]
        /\ last' = NoOp
        /\ UNCHANGED <<deleted, sched_vars, reg_vars, section, held>>

\* EntityView::delete
Delete ==
    \E e \in LiveIds(world) :
        LET gone == {Index(e)} \cup Descendants(idset, Index(e))
        IN /\ world' = EntityView_delete(world, e)
           /\ idset' = [i \in Indices |-> IF i \in gone THEN {} ELSE idset[i]]
           /\ deleted' = deleted \cup {e}
           /\ last' = [op |-> "delete", e |-> e,
                       desc |-> {EntityId(i, world.gens[i]) : i \in gone \ {Index(e)}},
                       outside |-> {x \in LiveIds(world) : Index(x) \notin gone}]
           /\ UNCHANGED <<sched_vars, reg_vars, section, held>>

NextStore ==
    \/ CreateEntity
    \/ AddTag
    \/ AddData
    \/ SetComp
    \/ Remove
    \/ Clear
    \/ Delete

SpecStore == Init /\ [][NextStore]_vars

NextTree ==
    \/ CreateTreeEntity
    \/ AddChildOf
    \/ Delete

SpecTree == Init /\ [][NextTree]_vars

(***************************************************************************)
(* Pairs.  Entities are created, deleted and their slots reused; a data    *)
(* pair is set on an entity with a component as one side and an entity as  *)
(* the other.                                                              *)
(***************************************************************************)
PairIdsOf(w, e) == {x \in Range(ecs_get_type(w, e)) : IsPair(x)}

PairStep(e, first, second, w1) ==
    /\ world' = w1
    /\ WithinBounds(world')
    /\ last' = [op |-> "pair", e |-> e, first |-> first, second |-> second,
                added |-> PairIdsOf(w1, e) \ PairIdsOf(world, e)]
    /\ UNCHANGED <<idset, deleted, sched_vars, reg_vars, section, held>>

\* EntityView::set_first
SetFirst ==
    \E e \in LiveIds(world), F \in DataIds, second \in LiveIds(world), v \in Values :
        PairStep(e, F, second, EntityView_set_first(world, e, F, second, v))

\* EntityView::set_second
SetSecond ==
    \E e \in LiveIds(world), first \in LiveIds(world), F \in DataIds, v \in Values :
        PairStep(e, first, F, EntityView_set_second(world, e, first, F, v))

\* EntityView::delete of an entity that is on no side of a pair and has none
DeleteUnpaired ==
    \E e \in LiveIds(world) :
        /\ \A x \in LiveIds(world) : \A q \in PairIdsOf(world, x) :
              Index(e) \notin {ecs_pair_first(q), ecs_pair_second(q)}
        /\ PairIdsOf(world, e) = {}
        /\ world' = EntityView_delete(world, e)
        /\ last' = NoOp
        /\ UNCHANGED <<idset, deleted, sched_vars, reg_vars, section, held>>

NextPair ==
    \/ CreateEntity
    \/ SetFirst
    \/ SetSecond
    \/ DeleteUnpaired

SpecPair == Init /\ [][NextPair]_vars

(***************************************************************************)
(* Queries built and dropped.  held lists the Query values the application *)
(* got from build and build_with_entity, each with what became of it:      *)
(* "held", "dropped", or "unwound" when it was dropped while the thread     *)
(* panicked.                                                               *)
(***************************************************************************)
HoldStep(out) ==
    /\ world' = out.world
    /\ held' = Append(held, [value |-> out.query, state |-> "held"])
    /\ last' = NoOp

\* World::query().build()
BuildQuery ==
    /\ Len(held) < MaxQueries
    /\ HoldStep(QueryBuilder_build(world, World_query))
    /\ UNCHANGED <<idset, deleted, sched_vars, reg_vars, section>>

\* World::query().build_with_entity()
BuildQueryWithEntity ==
    /\ Len(held) < MaxQueries
    /\ \E idx \in FreeSlots(world, StoreSlots, MaxGen - 1) :
          /\ HoldStep(QueryBuilder_build_with_entity(world, World_query, idx))
          /\ idset' = [idset EXCEPT ![idx] = {}]
    /\ UNCHANGED <<deleted, sched_vars, reg_vars, section>>

\* a Query value goes out of scope
DropQuery ==
    \E i \in 1 .. Len(held), panicking \in BOOLEAN :
        /\ held[i].state = "held"
        /\ world' = Query_drop(world, held[i].value, panicking)
        /\ held' = [held EXCEPT ![i].state = IF panicking THEN "unwound" ELSE "dropped"]
        /\ last' = NoOp
        /\ UNCHANGED <<idset, deleted, sched_vars, reg_vars, section>>

\* EntityView::delete of a live entity
DeleteHolder ==
    \E e \in LiveIds(world) :
        /\ world' = EntityView_delete(world, e)
        /\ idset' = [idset EXCEPT ![Index(e)] = {}]
        /\ deleted' = deleted \cup {e}
        /\ last' = NoOp
        /\ UNCHANGED <<sched_vars, reg_vars, section, held>>

NextRelease ==
    \/ BuildQuery
    \/ BuildQueryWithEntity
    \/ DropQuery
    \/ DeleteHolder

SpecRelease == Init /\ [][NextRelease]_vars

(***************************************************************************)
(* Rows.  Entities are created, get a tag and a value, and lose a          *)
(* component or are deleted; a removal records the entity that stood in    *)
(* the last row of the table the row is taken from (0: the row was the     *)
(* last one).                                                              *)
(***************************************************************************)
SwappedIn(w, e) ==
    LET r == w.record[Index(e)]
        t == w.tables[r.table]
    IN IF r.row = Len(t.entities) THEN 0 ELSE t.entities[Len(t.entities)]

RowStep(op, e, w) ==
    /\ world' = w
    /\ WithinBounds(world')
    /\ last' = [op |-> op, e |-> e, moved |-> SwappedIn(world, e),
                from |-> world.record[Index(e)]]

\* EntityView::remove of a component the entity has
RowRemove ==
    \E e \in LiveIds(world) :
        \E id \in idset[Index(e)] :
            /\ RowStep("row_remove", e, EntityView_remove(world, e, id))
            /\ idset' = [idset EXCEPT ![Index(e)] = @ \ {id}]
            /\ UNCHANGED <<deleted, sched_vars, reg_vars, section, held>>

\* EntityView::delete
RowDelete ==
    \E e \in LiveIds(world) :
        /\ RowStep("row_delete", e, EntityView_delete(world, e))
        /\ idset' = [idset EXCEPT ![Index(e)] = {}]
        /\ deleted' = deleted \cup {e}
        /\ UNCHANGED <<sched_vars, reg_vars, section, held>>

NextRows ==
    \/ CreateEntity
    \/ AddTag
    \/ SetComp
    \/ RowRemove
    \/ RowDelete

SpecRows == Init /\ [][NextRows]_vars

(***************************************************************************)
(* Enabling and disabling entities among the other operations of the       *)
(* store.                                                                  *)
(***************************************************************************)
ToggleStep(op, e, w) ==
    /\ world' = w
    /\ last' = [op |-> op, e |-> e, type |-> ecs_get_type(world, e),
                record |-> world.record[Index(e)], tables |-> world.tables]
    /\ UNCHANGED <<idset, deleted, sched_vars, reg_vars, section, held>>

\* EntityView::enable
Enable == \E e \in LiveIds(world) : ToggleStep("enable", e, EntityView_enable(world, e))

\* EntityView::disable
Disable == \E e \in LiveIds(world) : ToggleStep("disable", e, EntityView_disable(world, e))

NextEnable ==
    \/ CreateEntity
    \/ AddTag
    \/ SetComp
    \/ Remove
    \/ Delete
    \/ Enable
    \/ Disable

SpecEnable == Init /\ [][NextEnable]_vars

(***************************************************************************)
(* Named entities in a ChildOf hierarchy (src/src/test/child.rs).          *)
(***************************************************************************)
PathSlots == FirstEntity .. (FirstEntity + PathEntities - 1)

\* the live entities above e in the hierarchy
AncestorsOf(e) ==
    {EntityId(i, world.gens[i]) : i \in Ancestors(idset, Index(e), MaxEntities)}

\* World::entity_named with a name that holds no separator
CreateNamedEntity ==
    \E idx \in FreeSlots(world, PathSlots, 0), name \in Names :
        /\ world' = World_entity_named(world, idx, name)
        /\ idset' = IF world' = world THEN idset ELSE [idset EXCEPT ![idx] = {}]
        /\ last' = NoOp
        /\ UNCHANGED <<deleted, sched_vars, reg_vars, section, held>>

\* EntityView::add with a (ChildOf, parent) pair, the parent having no
\* child of that name yet
AddNamedChildOf ==
    \E e \in LiveIds(world), p \in LiveIds(world) :
        /\ Index(p) # Index(e)
        /\ idset[Index(e)] = {}
        /\ Index(e) \notin Ancestors(idset, Index(p), MaxEntities)
        /\ flecs_child_named(world, p, world.names[Index(e)]) = 0
        /\ AddStep(e, retrieve_pair_id(ChildOf, p), 0)

\* EntityView::path, then World::lookup of the path (from = 0) or
\* EntityView::lookup, on an ancestor, of the rest of the path
PathLookup ==
    \E e \in LiveIds(world) : \E from \in {0} \cup AncestorsOf(e) :
        LET path == EntityView_path(world, e)
            rest == SubSeq(path, Len(EntityView_path(world, from)) + 2, Len(path))
        IN /\ last' = [op |-> "path", e |-> e, from |-> from, path |-> path,
                       found |-> IF from = 0 THEN World_lookup(world, path)
                                 ELSE EntityView_lookup(world, from, rest)]
           /\ UNCHANGED <<world, idset, deleted, sched_vars, reg_vars, section, held>>

NextPath ==
    \/ CreateNamedEntity
    \/ AddNamedChildOf
    \/ PathLookup

SpecPath == Init /\ [][NextPath]_vars

(***************************************************************************)
(* Worlds and the registration of components.                              *)
(***************************************************************************)
\* one slot more than there are symbols
RegSlots == FirstEntity .. (FirstEntity + Cardinality(Symbols))

store_vars == <<world, idset, deleted, sched_vars, section, held>>

\* the component map every World sees
MapsSeen(st) == [o \in 1 .. Len(st.structs) |-> st.maps[st.structs[o].component_map]]

\* World::new, of the one World of an application
CreateFirstWorld ==
    /\ worlds.structs = <<>>
    /\ worlds' = World_default(worlds)
    /\ last' = NoOp
    /\ UNCHANGED <<store_vars, reglog>>

\* World::new, in an application that holds several Worlds
CreateWorld ==
    /\ Len(worlds.structs) < MaxWorlds
    /\ worlds' = World_default(worlds)
    /\ last' = NoOp
    /\ UNCHANGED <<store_vars, reglog>>

RegisterStep(self, T, symbol, call, res) ==
    /\ worlds' = res.st
    /\ reglog' = IF res.panic THEN reglog
                 ELSE [reglog EXCEPT
                          !.first[self][symbol] = IF @ = 0 THEN res.id ELSE @,
                          !.type[self][symbol] =
                              IF reglog.first[self][symbol] = 0 THEN T ELSE @,
                          !.types = @ \cup {<<self, T>>}]
    /\ last' = [op |-> "register", call |-> call, world |-> self, type |-> T,
                symbol |-> symbol, id |-> res.id, panic |-> res.panic,
                first |-> reglog.first[self][symbol],
                firsttype |-> reglog.type[self][symbol],
                maps |-> MapsSeen(worlds)]
    /\ UNCHANGED store_vars

\* World::component
RegisterComponentCall ==
    \E self \in 1 .. Len(worlds.structs), T \in Types, symbol \in Symbols :
        \E idx \in FreeSlots(worlds.ecs[worlds.structs[self].ptr], RegSlots, 0) :
            RegisterStep(self, T, symbol, "component",
                         World_component(worlds, self, T, symbol, idx))

\* World::tag
RegisterTagCall ==
    \E self \in 1 .. Len(worlds.structs), T \in Types, symbol \in Symbols :
        \E idx \in FreeSlots(worlds.ecs[worlds.structs[self].ptr], RegSlots, 0) :
            RegisterStep(self, T, symbol, "tag",
                         World_tag(worlds, self, T, symbol, idx))

\* World::component_clone, of a type that is Clone
RegisterCloneCall ==
    \E self \in 1 .. Len(worlds.structs), T \in Types, symbol \in Symbols :
        \E idx \in FreeSlots(worlds.ecs[worlds.structs[self].ptr], RegSlots, 0) :
            /\ IsClone(T)
            /\ RegisterStep(self, T, symbol, "component_clone",
                            World_component_clone(worlds, self, T, symbol, idx))

\* the symbol an application gives a data type, one symbol per type
OwnSymbol(T) == IF T = "Foo" THEN <<"a">> ELSE <<"b">>

\* World::component of a data type under the symbol of that type, as the
\* tests register their components
RegisterOwnSymbol ==
    \E self \in 1 .. Len(worlds.structs), T \in {X \in Types : ~IS_TAG(X)} :
        \E idx \in FreeSlots(worlds.ecs[worlds.structs[self].ptr], RegSlots, 0) :
            RegisterStep(self, T, OwnSymbol(T), "component",
                         World_component(worlds, self, T, OwnSymbol(T), idx))

\* id::<T>().retrieve_id(world)
ResolveId ==
    \E self \in 1 .. Len(worlds.structs), T \in Types :
        /\ last' = [op |-> "resolve", world |-> self, type |-> T,
                    res |-> CompId_retrieve_id(worlds, self, T)]
        /\ UNCHANGED <<store_vars, reg_vars>>

NextRegistry ==
    \/ CreateFirstWorld
    \/ RegisterComponentCall
    \/ RegisterTagCall
    \/ RegisterCloneCall
    \/ ResolveId

SpecRegistry == Init /\ [][NextRegistry]_vars

NextWorlds ==
    \/ CreateWorld
    \/ RegisterOwnSymbol
    \/ ResolveId

SpecWorlds == Init /\ [][NextWorlds]_vars

(***************************************************************************)
(* Singletons.  One World; the data types are registered, each under its   *)
(* own symbol, and their singletons are set and removed.                   *)
(***************************************************************************)
SingletonTypes(st, self) ==
    {T \in Types : ~IS_TAG(T) /\ ~CompId_retrieve_id(st, self, T).panic}

\* what the application sees of the singletons of the registered types
Singletons(st, self) ==
    [T \in SingletonTypes(st, self) |->
        [exists |-> World_singleton_exists(st, self, T),
         value |-> World_singleton_get(st, self, T)]]

SingletonStep(op, T, v, st) ==
    /\ worlds' = st
    /\ last' = [op |-> op, type |-> T, v |-> v, before |-> Singletons(worlds, 1)]
    /\ UNCHANGED <<store_vars, reglog>>

\* World::singleton_set
SingletonSet ==
    /\ worlds.structs # <<>>
    /\ \E T \in SingletonTypes(worlds, 1), v \in 1 .. (MaxVal + 1) :
          SingletonStep("singleton_set", T, v, World_singleton_set(worlds, 1, T, v))

\* World::singleton_remove
SingletonRemove ==
    /\ worlds.structs # <<>>
    /\ \E T \in SingletonTypes(worlds, 1) :
          SingletonStep("singleton_remove", T, 0, World_singleton_remove(worlds, 1, T))

NextSingleton ==
    \/ CreateFirstWorld
    \/ RegisterOwnSymbol
    \/ SingletonSet
    \/ SingletonRemove

SpecSingleton == Init /\ [][NextSingleton]_vars

(***************************************************************************)
(* Life of the World values.  Worlds are made by World::new, and views of  *)
(* them by from_ptr, from_ptr_and_map and Iter::world; every value is      *)
(* dropped at most once (Rust moves).  A view is made from pointers that   *)
(* are still valid.                                                        *)
(***************************************************************************)
Made(st, origin) == [st EXCEPT !.life = Append(@, [origin |-> origin, dropped |-> FALSE])]

LiveWorlds == {k \in 1 .. Len(worlds.structs) : ~worlds.life[k].dropped}

ValidPtrs == {a \in 1 .. Len(worlds.ecs) : a \notin Range(worlds.fini)}

ValidMaps == {a \in 1 .. Len(worlds.maps) : a \notin Range(worlds.freed)}

LifeStep(st) ==
    /\ worlds' = st
    /\ last' = NoOp
    /\ UNCHANGED <<store_vars, reglog>>

\* World::new
NewWorld ==
    /\ Len(worlds.ecs) < MaxWorlds
    /\ Len(worlds.structs) < MaxViews
    /\ LifeStep(Made(World_default(worlds), "new"))

\* World::from_ptr
FromPtr ==
    /\ Len(worlds.structs) < MaxViews
    /\ \E ptr \in ValidPtrs : LifeStep(Made(World_from_ptr(worlds, ptr), "from_ptr"))

\* World::from_ptr_and_map
FromPtrAndMap ==
    /\ Len(worlds.structs) < MaxViews
    /\ \E ptr \in ValidPtrs, map \in ValidMaps :
          LifeStep(Made(World_from_ptr_and_map(worlds, ptr, map), "from_ptr_and_map"))

\* Iter::world on an iterator of a query of a live World
IterWorld ==
    /\ Len(worlds.structs) < MaxViews
    /\ \E self \in LiveWorlds :
          /\ worlds.structs[self].ptr \in ValidPtrs
          /\ worlds.structs[self].component_map \in ValidMaps
          /\ LifeStep(Made(Iter_world(worlds, Query_iter_ctx(worlds, self)), "iter_world"))

\* a World value goes out of scope
DropWorld ==
    \E self \in LiveWorlds, panicking \in BOOLEAN :
        /\ worlds' = [World_drop(worlds, self, panicking) EXCEPT !.life[self].dropped = TRUE]
        /\ last' = [op |-> "drop", origin |-> worlds.life[self].origin,
                    panicking |-> panicking,
                    freed |-> worlds.freed, fini |-> worlds.fini]
        /\ UNCHANGED <<store_vars, reglog>>

NextLife ==
    \/ NewWorld
    \/ FromPtr
    \/ FromPtrAndMap
    \/ IterWorld
    \/ DropWorld

SpecLife == Init /\ [][NextLife]_vars

(***************************************************************************)
(* A component with a destructor (src/src/test/drop.rs).                   *)
(***************************************************************************)
DropValues == 1 .. (MaxVal + 1)

\* EntityView::set_comp::<Dropper>
SetDropper ==
    \E e \in LiveIds(world), v \in DropValues :
        /\ Len(world.drops) < MaxDrops
        /\ world' = EntityView_set_comp(world, e, CompDropper, v)
        /\ idset' = [idset EXCEPT ![Index(e)] = @ \cup {CompDropper}]
        /\ last' = [op |-> "set", e |-> e, v |-> v, before |-> world.drops]
        /\ UNCHANGED <<deleted, sched_vars, reg_vars, section, held>>

\* EntityView::remove(id::<Dropper>())
RemoveDropper ==
    \E e \in LiveIds(world) :
        /\ Len(world.drops) < MaxDrops
        /\ world' = EntityView_remove(world, e, CompDropper)
        /\ idset' = [idset EXCEPT ![Index(e)] = @ \ {CompDropper}]
        /\ last' = IF last.op = "set" /\ last.e = e
                   THEN [op |-> "setremove", e |-> e, v |-> last.v, before |-> last.before]
                   ELSE NoOp
        /\ UNCHANGED <<deleted, sched_vars, reg_vars, section, held>>

NextDrop ==
    \/ CreateEntity
    \/ SetDropper
    \/ RemoveDropper
    \/ Delete

SpecDrop == Init /\ [][NextDrop]_vars

(***************************************************************************)
(* The hooks called on a run of elements.  The engine calls a hook with    *)
(* the address of the first element and a count; addresses are byte        *)
(* offsets into the column, the column starting at 0, the destination of a *)
(* copy being another column that starts at 0.                             *)
(***************************************************************************)
HookTypes == {"Foo", "FooBar", "Dropper"}

HookColumns == UNION {[1 .. n -> DropValues] : n \in 0 .. MaxCount}

\* dtor_callback::<T>(ptr, count, type_info) on a column of count elements
DtorCall ==
    \E T \in HookTypes, column \in HookColumns :
        /\ last' = [op |-> "dtor_callback", type |-> T, count |-> Len(column),
                    column |-> column,
                    places |-> dtor_callback_places(0, Len(column)),
                    drops |-> dtor_callback(<<>>, column, 0, Len(column), T)]
        /\ UNCHANGED <<store_vars, reg_vars>>

\* copy_callback::<T>(dst, src, count, type_info) from a column of count
\* elements
CopyCall ==
    \E T \in HookTypes, column \in HookColumns :
        /\ last' = [op |-> "copy_callback", type |-> T, count |-> Len(column),
                    column |-> column,
                    writes |-> copy_callback(0, 0, column, Len(column), T)]
        /\ UNCHANGED <<store_vars, reg_vars>>

NextHook ==
    \/ DtorCall
    \/ CopyCall

SpecHook == Init /\ [][NextHook]_vars

(***************************************************************************)
(* Defer mode: entities are created, mutated at once or under              *)
(* defer_begin .. defer_end, with deferring suspended and resumed in       *)
(* between.  A mutation is [kind, entity, id, value].                      *)
(***************************************************************************)
Mutation(kind, e, id, v) == [kind |-> kind, entity |-> e, id |-> id, value |-> v]

MutationsOf(e) ==
    {Mutation("add", e, id, 0) : id \in TagIds}
        \cup {Mutation("remove", e, id, 0) : id \in TagIds}
        \cup {Mutation("set", e, id, v) : id \in DataIds, v \in Values}
        \cup {Mutation("delete", e, 0, 0)}

\* the call of the application for a mutation
Submit(w, m) ==
    CASE m.kind = "add" -> EntityView_add(w, m.entity, m.id, m.value)
      [] m.kind = "remove" -> EntityView_remove(w, m.entity, m.id)
      [] m.kind = "set" -> EntityView_set_comp(w, m.entity, m.id, m.value)
      [] OTHER -> EntityView_delete(w, m.entity)

\* what the application can observe of entity e
Observe(w, e) ==
    IF EntityView_is_alive(w, e)
    THEN [alive |-> TRUE,
          ids |-> {id \in TagIds \cup DataIds : EntityView_has(w, e, id)},
          values |-> [id \in DataIds |-> EntityView_get(w, e, id)]]
    ELSE [alive |-> FALSE, ids |-> {}, values |-> [id \in DataIds |-> 0]]

ObserveAll(w) == [i \in StoreSlots |-> Observe(w, EntityId(i, 0))]

\* the mutations of `ms` made one after the other on a world that does
\* not defer; a mutation of an entity that is gone does nothing
RECURSIVE Immediately(_, _)
Immediately(w, ms) ==
    IF ms = <<>> THEN w
    ELSE LET w0 == [w EXCEPT !.defer = 0, !.suspended = FALSE, !.queue = <<>>]
             w1 == IF EntityView_is_alive(w0, Head(ms).entity)
                   THEN Submit(w0, Head(ms)) ELSE w0
         IN Immediately(w1, Tail(ms))

Deferring == section.depth > 0 /\ ~section.suspended

\* World::entity, in a world whose slots are not reused
CreateDeferEntity ==
    /\ \E idx \in FreeSlots(world, StoreSlots, 0) : world' = World_entity(world, idx)
    /\ last' = NoOp
    /\ UNCHANGED <<idset, deleted, sched_vars, reg_vars, section, held>>

\* World::defer_begin
DeferBegin ==
    /\ section.depth < MaxDefer
    /\ ~section.suspended
    /\ world' = World_defer_begin(world)
    /\ section' = [section EXCEPT !.depth = @ + 1]
    /\ last' = NoOp
    /\ UNCHANGED <<idset, deleted, sched_vars, reg_vars, held>>

\* World::defer_end
DeferEnd ==
    /\ Deferring
    /\ world' = World_defer_end(world)
    /\ IF section.depth = 1
       THEN /\ section' = NoSection
            /\ last' = [op |-> "flush", pending |-> section.pending,
                        expect |-> ObserveAll(Immediately(world, section.pending))]
       ELSE /\ section' = [section EXCEPT !.depth = @ - 1]
            /\ last' = NoOp
    /\ UNCHANGED <<idset, deleted, sched_vars, reg_vars, held>>

\* World::defer_suspend
DeferSuspend ==
    /\ Deferring
    /\ world' = World_defer_suspend(world)
    /\ section' = [section EXCEPT !.suspended = TRUE]
    /\ last' = NoOp
    /\ UNCHANGED <<idset, deleted, sched_vars, reg_vars, held>>

\* World::defer_resume
DeferResume ==
    /\ section.suspended
    /\ world' = World_defer_resume(world)
    /\ section' = [section EXCEPT !.suspended = FALSE, !.resumed = TRUE]
    /\ last' = NoOp
    /\ UNCHANGED <<idset, deleted, sched_vars, reg_vars, held>>

\* EntityView::add, remove, set_comp or delete on a live entity
Mutate ==
    \E i \in StoreSlots : \E m \in MutationsOf(EntityId(i, 0)) :
        /\ EntityView_is_alive(world, m.entity)
        /\ Deferring => Len(section.pending) < MaxQueue
        /\ world' = Submit(world, m)
        /\ WithinBounds(world')
        /\ section' = IF Deferring THEN [section EXCEPT !.pending = Append(@, m)]
                      ELSE section
        /\ last' = [op |-> "mutate", m |-> m,
                    mode |-> IF Deferring THEN "deferred"
                             ELSE IF section.suspended THEN "suspended" ELSE "immediate",
                    resumed |-> section.resumed,
                    pending |-> section.pending,
                    before |-> Observe(world, m.entity)]
        /\ UNCHANGED <<idset, deleted, sched_vars, reg_vars, held>>

NextDefer ==
    \/ CreateDeferEntity
    \/ DeferBegin
    \/ DeferEnd
    \/ DeferSuspend
    \/ DeferResume
    \/ Mutate

SpecDefer == Init /\ [][NextDefer]_vars

(***************************************************************************)
(* Queries.  One pass is the loop of the tests:                            *)
(*   let mut it = query.iter();                                            *)
(*   while it.advance() { for row in 0..it.count() { ... check_id ... } }  *)
(* It records every row it visits: the entity and, for every term slot,    *)
(* the ids check_id answers true for.                                      *)
(***************************************************************************)
QuerySlots == FirstEntity .. (FirstEntity + QueryEntities - 1)

Term(oper, ids) == [oper |-> oper, ids |-> ids]

Queries ==
    {<<Term("And", <<CompTag>>)>>,
     <<Term("And", <<CompTag>>), Term("And", <<CompTriple>>)>>,
     <<Term("And", <<CompTag>>), Term("Not", <<CompTriple>>)>>,
     <<Term("And", <<CompTriple>>), Term("Optional", <<CompTag>>)>>,
     <<Term("Or", <<CompTag, CompTriple>>)>>,
     <<Term("Optional", <<CompTag>>), Term("Or", <<CompTriple, CompTag>>)>>}

VisitsOf(it) ==
    [row \in 1 .. Iter_count(it) |->
        [e |-> it.entities[row],
         hits |-> [k \in 1 .. Len(it.query) |->
                      {c \in QueryIds : Iter_check_id(it, c, k - 1)}]]]

RECURSIVE PassFrom(_, _, _)
PassFrom(w, it, visits) ==
    LET nxt == Iter_advance(w, it)
    IN IF ~nxt.valid THEN visits
       ELSE PassFrom(w, nxt, visits \o VisitsOf(nxt))

\* World::entity, in the world the queries run on
CreateQueryEntity ==
    \E idx \in FreeSlots(world, QuerySlots, 0) : EntityStep(idx)

\* EntityView::add with one of the tags the queries ask for
AddQueryTag ==
    \E e \in LiveIds(world), id \in QueryIds : AddStep(e, id, 0)

\* EntityView::remove of one of the tags the queries ask for
RemoveQueryTag ==
    \E e \in LiveIds(world), id \in QueryIds :
        /\ world' = EntityView_remove(world, e, id)
        /\ idset' = [idset EXCEPT ![Index(e)] = @ \ {id}]
        /\ last' = NoOp
        /\ UNCHANGED <<deleted, sched_vars, reg_vars, section, held>>

\* QueryBuilder::build, Query::iter and the loop over Iter::advance
QueryPass ==
    \E q \in Queries :
        /\ last' = [op |-> "pass", query |-> q,
                    visits |-> PassFrom(world, Query_iter(world, q), <<>>)]
        /\ UNCHANGED <<world, idset, deleted, sched_vars, reg_vars, section, held>>

NextQuery ==
    \/ CreateQueryEntity
    \/ AddQueryTag
    \/ RemoveQueryTag
    \/ Delete
    \/ QueryPass

SpecQuery == Init /\ [][NextQuery]_vars

(***************************************************************************)
(* One pass, call by call.  `while it.advance() { ... }` is run on a world *)
(* that the loop body does not change; the tables the calls stop on and    *)
(* the number of calls are recorded.  The loop is cut off after            *)
(* MaxTables + 2 calls, more than a pass over MaxTables tables needs.       *)
(***************************************************************************)
RECURSIVE AdvanceLoopFrom(_, _, _, _)
AdvanceLoopFrom(w, it, tables, fuel) ==
    IF fuel = 0 THEN [tables |-> tables, ended |-> FALSE, again |-> TRUE]
    ELSE LET nxt == Iter_advance(w, it)
         IN IF nxt.valid
            THEN AdvanceLoopFrom(w, nxt, Append(tables, nxt.table), fuel - 1)
            ELSE [tables |-> tables, ended |-> TRUE,
                  again |-> Iter_advance(w, nxt).valid]

\* Query::iter and the loop over Iter::advance
AdvanceLoop ==
    \E q \in Queries :
        /\ last' = [op |-> "advance", query |-> q,
                    pass |-> AdvanceLoopFrom(world, Query_iter(world, q), <<>>, MaxTables + 2)]
        /\ UNCHANGED <<world, idset, deleted, sched_vars, reg_vars, section, held>>

NextAdvance ==
    \/ CreateQueryEntity
    \/ AddQueryTag
    \/ RemoveQueryTag
    \/ Delete
    \/ AdvanceLoop

SpecAdvance == Init /\ [][NextAdvance]_vars

(***************************************************************************)
(* Fields.  Entities get and lose a tag and a data component; a pass of a  *)
(* query with an optional term records, for every row it visits, what has  *)
(* and get answer for every term slot; a field or the entity array of the  *)
(* first table of a pass is read at an index.                              *)
(***************************************************************************)
FieldQueries ==
    {<<Term("And", <<CompTag>>), Term("Optional", <<CompData>>)>>,
     <<Term("And", <<CompData>>), Term("Optional", <<CompTag>>)>>}

FieldVisitsOf(w, it) ==
    [row \in 1 .. Iter_count(it) |->
        [e |-> it.entities[row],
         has |-> [k \in 1 .. Len(it.query) |-> Iter_has(it, k - 1)],
         got |-> [k \in 1 .. Len(it.query) |->
                    /\ IsDataId(it.query[k].ids[1])
                    /\ Iter_get(w, it, ComponentType(it.query[k].ids[1]), k - 1).some]]]

RECURSIVE FieldPassFrom(_, _, _)
FieldPassFrom(w, it, visits) ==
    LET nxt == Iter_advance(w, it)
    IN IF ~nxt.valid THEN visits
       ELSE FieldPassFrom(w, nxt, visits \o FieldVisitsOf(w, nxt))

\* Query::iter and the loop over Iter::advance with has and get per table
FieldPass ==
    \E q \in FieldQueries :
        /\ last' = [op |-> "fieldpass", query |-> q,
                    visits |-> FieldPassFrom(world, Query_iter(world, q), <<>>)]
        /\ UNCHANGED <<world, idset, deleted, sched_vars, reg_vars, section, held>>

DataQuery == <<Term("And", <<CompData>>)>>

\* field[index] or &mut field[index] on the field of the first table of a
\* pass, index up to one past the count
FieldIndex ==
    LET it == Iter_advance(world, Query_iter(world, DataQuery))
        field == Iter_get(world, it, ComponentType(CompData), 0)
    IN /\ it.valid
       /\ \E index \in 0 .. (Iter_count(it) + 1), mut \in BOOLEAN :
            \E out \in IF mut THEN Field_index_mut(field, index, Values)
                       ELSE Field_index(field, index, Values) :
                last' = [op |-> "index", index |-> index, count |-> Iter_count(it),
                         rejected |-> out.panic, value |-> out.value,
                         array |-> field.cache_field]
       /\ UNCHANGED <<world, idset, deleted, sched_vars, reg_vars, section, held>>

\* it.entity(index) on the first table of a pass
IterEntity ==
    LET it == Iter_advance(world, Query_iter(world, DataQuery))
    IN /\ it.valid
       /\ \E index \in 0 .. (Iter_count(it) + 1) :
            \E out \in Iter_entity(it, index, LiveIds(world)) :
                last' = [op |-> "index", index |-> index, count |-> Iter_count(it),
                         rejected |-> ~out.some, value |-> out.entity,
                         array |-> it.entities]
       /\ UNCHANGED <<world, idset, deleted, sched_vars, reg_vars, section, held>>

\* the iterator after n calls of advance
RECURSIVE AdvanceTimes(_, _, _)
AdvanceTimes(w, it, n) ==
    IF n = 0 THEN it ELSE AdvanceTimes(w, Iter_advance(w, it), n - 1)

\* it.get::<TestTag>(index) on a fresh, a positioned or an exhausted
\* iterator, for every term of the query
TagGet ==
    \E q \in FieldQueries, n \in 0 .. MaxTables, T \in {"TestTag"} :
        \E index \in 0 .. (Len(q) - 1) :
            LET it == AdvanceTimes(world, Query_iter(world, q), n)
                out == Iter_get(world, it, T, index)
            IN /\ last' = [op |-> "tagget", valid |-> it.valid,
                           set |-> Iter_has(it, index),
                           id |-> q[index + 1].ids[1],
                           panic |-> out.panic, some |-> out.some]
               /\ UNCHANGED <<world, idset, deleted, sched_vars, reg_vars, section, held>>

NextField ==
    \/ CreateEntity
    \/ TagGet
    \/ AddTag
    \/ SetComp
    \/ Remove
    \/ Delete
    \/ FieldPass
    \/ FieldIndex
    \/ IterEntity

SpecField == Init /\ [][NextField]_vars

(***************************************************************************)
(* Systems and frames.                                                     *)
(***************************************************************************)
SchedSlots == FirstEntity .. (FirstEntity + MaxSystems - 1)

\* the builder after the optional kind() and rate() calls
Builder(kind, rate) ==
    LET b0 == World_system
        b1 == IF kind # 0 THEN SystemBuilder_kind(b0, kind) ELSE b0
    IN IF rate # 0 THEN SystemBuilder_rate(b1, rate) ELSE b1

BuildStep(w, idx, kind, rate, named) ==
    /\ world' = w
    /\ declared' = Append(declared, [entity |-> EntityId(idx, world.gens[idx]),
                                     kind |-> kind, rate |-> rate,
                                     named |-> named, since |-> Len(frames)])
    /\ idset' = [idset EXCEPT ![idx] = Range(ecs_get_type(w, EntityId(idx, world.gens[idx])))]
    /\ last' = NoOp
    /\ UNCHANGED <<deleted, frames, reg_vars, section, held>>

\* world.system().kind(..).rate(..).build(callback)
Build ==
    \E idx \in FreeSlots(world, SchedSlots, 0), kind \in {0} \cup Phases, rate \in Rates :
        BuildStep(SystemBuilder_build(world, Builder(kind, rate), idx),
                  idx, kind, rate, FALSE)

\* world.system().kind(..).rate(..).build_named(name, callback)
BuildNamed ==
    \E idx \in FreeSlots(world, SchedSlots, 0), kind \in {0} \cup Phases, rate \in Rates :
        BuildStep(SystemBuilder_build_named(world, Builder(kind, rate), idx),
                  idx, kind, rate, TRUE)

\* World::progress
Progress ==
    /\ Len(frames) < MaxFrames
    /\ world' = World_progress(world)
    /\ frames' = Append(frames, ecs_progress_runs(world))
    /\ last' = NoOp
    /\ UNCHANGED <<idset, deleted, declared, reg_vars, section, held>>

NextSched ==
    \/ Build
    \/ BuildNamed
    \/ Progress

SpecSched == Init /\ [][NextSched]_vars

(***************************************************************************)
(* Properties of the table store and the identifier space.                 *)
(***************************************************************************)
TablesHolding(e) == {i \in 1 .. Len(world.tables) : e \in Range(world.tables[i].entities)}

RowsHolding(e, i) == {r \in 1 .. Len(world.tables[i].entities) : world.tables[i].entities[r] = e}

\* C1: every live entity is stored in exactly one table, once, the type of
\* that table is the entity's current id-set, and no two tables have the
\* same id-set
C1_OneTablePerIdSet ==
    /\ \A e \in LiveIds(world) :
          /\ Cardinality(TablesHolding(e)) = 1
          /\ \A i \in TablesHolding(e) :
                /\ Cardinality(RowsHolding(e, i)) = 1
                /\ Range(world.tables[i].type) = idset[Index(e)]
                /\ Len(world.tables[i].type) = Cardinality(idset[Index(e)])
    /\ \A i, j \in 1 .. Len(world.tables) :
          i # j => Range(world.tables[i].type) # Range(world.tables[j].type)

\* two entities hold the same two ids, put on them in opposite orders, and
\* share a table
C1_Witness ==
    \E e1, e2 \in LiveIds(world) :
        /\ e1 # e2
        /\ Cardinality(idset[Index(e1)]) >= 2
        /\ TablesHolding(e1) = TablesHolding(e2)
        /\ last.op = "add"
        /\ last.e = e2
        /\ last.id = CompTag
        /\ CompData \in last.ids
        /\ \E i \in TablesHolding(e1) : world.tables[i].entities[1] = e1

\* C2: an id delete() was called on is not alive, and every live id on the
\* same slot carries another generation
C2_DeletedStaysDead ==
    \A d \in deleted :
        /\ ~EntityView_is_alive(world, d)
        /\ \A e \in LiveIds(world) : Index(e) = Index(d) => Gen(e) # Gen(d)

\* a deleted id whose slot has been handed out again
C2_Witness ==
    \E d \in deleted : \E e \in LiveIds(world) :
        /\ Index(e) = Index(d)
        /\ EntityView_is_alive(world, e)

\* C9: remove(c) right after add(c) of an id the entity did not have puts
\* the entity back into the table it came from, with the id-set it had
C9_AddRemoveRoundTrip ==
    last.op = "trip" =>
        /\ world.record[Index(last.e)].table = last.table
        /\ Range(ecs_get_type(world, last.e)) = last.ids

\* the round trip started from a table with components and other entities,
\* and the entity came back on another row
C9_Witness ==
    /\ last.op = "trip"
    /\ last.ids # {}
    /\ Len(world.tables[last.table].entities) >= 2
    /\ world.record[Index(last.e)].row = Len(world.tables[last.table].entities)

PlainIds ==
    (1 .. (FirstEntity - 1)) \cup {EntityId(i, g) : i \in Indices, g \in 0 .. (MaxGen + 1)}

C26_EnableIsSoftToggle ==
    last.op \in {"enable", "disable"} =>
        /\ ecs_is_alive(world, last.e)
        /\ ecs_get_type(world, last.e) = last.type
        /\ Range(last.type) = idset[Index(last.e)]
        /\ world.record[Index(last.e)] = last.record
        /\ world.tables = last.tables
        /\ (last.e \in world.disabled) = (last.op = "disable")

\* an entity with components, in a table with another entity, is disabled
C26_Witness ==
    /\ last.op = "disable"
    /\ last.type # <<>>
    /\ Len(world.tables[last.record.table].entities) > 1
    /\ last.e \in world.disabled

(***************************************************************************)
(* Properties of one pass.                                                 *)
(***************************************************************************)
MatchingTables(w, query) ==
    {i \in 1 .. Len(w.tables) : flecs_table_matches(w.tables[i], query)}

RecordNamesRow(w, e) ==
    LET r == w.record[Index(e)]
    IN /\ r.table \in 1 .. Len(w.tables)
       /\ r.row \in 1 .. Len(w.tables[r.table].entities)
       /\ w.tables[r.table].entities[r.row] = e

\* C28: the record of every live entity names the row of its table that
\* holds the entity, every column of a table is as long as the entity array
\* of the table, and an entity that a removal swapped into the vacated row
\* has that row in its record
C28_RecordsAndColumnsConsistent ==
    /\ \A e \in LiveIds(world) : RecordNamesRow(world, e)
    /\ \A i \in 1 .. Len(world.tables) :
          \A id \in DOMAIN world.tables[i].columns :
              Len(world.tables[i].columns[id]) = Len(world.tables[i].entities)
    /\ (last.op \in {"row_remove", "row_delete"} /\ last.moved # 0) =>
          /\ world.record[Index(last.moved)] = last.from
          /\ world.tables[last.from.table].entities[last.from.row] = last.moved

\* the row of an entity with a data column is removed and another entity
\* is swapped into it
C28_Witness ==
    /\ last.op \in {"row_remove", "row_delete"}
    /\ last.moved # 0
    /\ DOMAIN world.tables[last.from.table].columns # {}
    /\ world.record[Index(last.moved)] = last.from

(***************************************************************************)
(* Properties of the lifetime of queries.                                  *)
(***************************************************************************)
\* C29: no query object is finalized twice; the query of build() is
\* finalized once its Query value is dropped; the query of
\* build_with_entity is associated with the entity made for it, is not
\* finalized by the drop of its Query value and is finalized once that
\* entity is deleted
C29_QueryReleasedOnce ==
    \A i \in 1 .. Len(held) :
        LET h == held[i]
            q == world.queries[h.value.query]
        IN /\ q.fini <= 1
           /\ h.value.entity_id = 0 => (q.fini = 1 <=> h.state = "dropped")
           /\ h.value.entity_id # 0 =>
                 /\ q.entity = h.value.entity_id
                 /\ q.fini = 1 <=> ~ecs_is_alive(world, h.value.entity_id)

(***************************************************************************)
(* Properties of the hooks on a run of elements.                           *)
(***************************************************************************)
\* the byte offsets of n elements of size s
Stride(n, s) == [k \in 1 .. n |-> (k - 1) * s]

\* C30: called with count n for a type of size s, dtor_callback drops the
\* elements at the offsets 0, s, ..., (n-1)s from its pointer, and
\* copy_callback reads and writes at these offsets of its two pointers,
\* each once and nothing else
C30_HookStride ==
    /\ last.op = "dtor_callback" =>
          last.places = Stride(last.count, size_of(last.type))
    /\ last.op = "copy_callback" =>
          /\ [k \in 1 .. last.count |-> last.writes[k].dst] = Stride(last.count, size_of(last.type))
          /\ [k \in 1 .. last.count |-> last.writes[k].src] = Stride(last.count, size_of(last.type))

(***************************************************************************)
(* Properties of names and paths.                                          *)
(***************************************************************************)
SepAt(path) == {i \in 1 .. Len(path) : path[i] = Sep}

ElemCount(path) == Cardinality(SepAt(path)) + 1

\* position of the separator that has n separators before it
NthSep(path, n) ==
    CHOOSE i \in SepAt(path) : Cardinality({j \in SepAt(path) : j < i}) = n

\* the k-th element of the path
Elem(path, k) ==
    SubSeq(path,
           IF k = 1 THEN 1 ELSE NthSep(path, k - 2) + 1,
           IF k = ElemCount(path) THEN Len(path) ELSE NthSep(path, k - 1) - 1)

Depth(i) == Cardinality(Ancestors(idset, i, MaxEntities))

\* C11: the path of a named entity has one element per entity from the root
\* down to it, each the name of that entity; looking the path up from the
\* world, or the rest of it from an ancestor, finds the entity
C11_PathRoundTrip ==
    last.op = "path" =>
        LET chain == Ancestors(idset, Index(last.e), MaxEntities) \cup {Index(last.e)}
        IN /\ ElemCount(last.path) = Cardinality(chain)
           /\ \A i \in chain : Elem(last.path, Depth(i) + 1) = world.names[i]
           /\ last.found = last.e

\* a grandchild that has the name of the root entity, found from its
\* parent
C11_Witness ==
    /\ last.op = "path"
    /\ last.from # 0
    /\ Depth(Index(last.e)) = 2
    /\ Depth(Index(last.from)) = 1
    /\ \E r \in LiveIds(world) :
          /\ Depth(Index(r)) = 0
          /\ world.names[Index(r)] = world.names[Index(last.e)]
    /\ last.found = last.e

(***************************************************************************)
(* Properties of the component registration.                               *)
(***************************************************************************)
EngineOf(self) == worlds.ecs[worlds.structs[self].ptr]

MapOf(self) == worlds.maps[worlds.structs[self].component_map]

\* the live entities of a world that carry the symbol
Carrying(self, symbol) ==
    {i \in Indices : EngineOf(self).alive[i] /\ EngineOf(self).symbols[i] = symbol}

\* C12: a registration under a symbol that was registered before returns
\* the id the first registration under it returned, and no two entities of
\* a world carry the same symbol
C12_RegistrationIdempotent ==
    /\ (last.op = "register" /\ ~last.panic /\ last.first # 0) => last.id = last.first
    /\ \A self \in 1 .. Len(worlds.structs) : \A symbol \in Symbols :
          Cardinality(Carrying(self, symbol)) <= 1

\* a symbol first registered by tag and registered again by component_clone,
\* in a world that holds another component
C12_Witness ==
    /\ last.op = "register"
    /\ last.call = "component_clone"
    /\ ~last.panic
    /\ last.first # 0
    /\ last.firsttype = "Likes"
    /\ \E symbol \in Symbols \ {last.symbol} : Carrying(last.world, symbol) # {}

\* the first registration and this one are data components that differ in
\* size or alignment
Conflicting(r) ==
    /\ r.first # 0
    /\ ~IS_TAG(r.firsttype)
    /\ ~IS_TAG(r.type)
    /\ \/ size_of(r.firsttype) # size_of(r.type)
       \/ align_of(r.firsttype) # align_of(r.type)

\* C13: a registration under a symbol whose component has another size or
\* alignment aborts: it returns no id and the type is not mapped to the
\* component registered first
C13_ConflictAborts ==
    (last.op = "register" /\ Conflicting(last)) =>
        /\ last.panic
        /\ MapOf(last.world)[last.type] # last.first

\* C14: a registration changes the component map of no other World, and a
\* type never registered in a World resolves to a panic there
C14_MapPerWorld ==
    /\ last.op = "register" =>
          \A o \in 1 .. Len(worlds.structs) :
              o # last.world => MapOf(o) = last.maps[o]
    /\ last.op = "resolve" =>
          (<<last.world, last.type>> \notin reglog.types => last.res.panic)

\* a type registered in one World only is resolved in the other
C14_Witness ==
    /\ last.op = "resolve"
    /\ <<last.world, last.type>> \notin reglog.types
    /\ \E o \in 1 .. Len(worlds.structs) : <<o, last.type>> \in reglog.types
    /\ last.res.panic

(***************************************************************************)
(* Properties of the life of the World values.                             *)
(***************************************************************************)
Times(log, a) == Cardinality({i \in 1 .. Len(log) : log[i] = a})

\* C22: the drop of a view finalises no engine world, the drop of a view
\* made by Iter::world or from_ptr_and_map frees no component map; no
\* engine world is finalised twice, no component map is freed twice, and a
\* world is finalised only by the drop of the World made by World::new, a
\* map freed only by the drop of the World it was made for
C22_ViewsOwnNothing ==
    /\ (last.op = "drop" /\ last.origin # "new") => worlds.fini = last.fini
    /\ (last.op = "drop" /\ last.origin \in {"iter_world", "from_ptr_and_map"})
          => worlds.freed = last.freed
    /\ \A a \in 1 .. Len(worlds.ecs) : Times(worlds.fini, a) <= 1
    /\ \A a \in 1 .. Len(worlds.maps) : Times(worlds.freed, a) <= 1

\* a view made by Iter::world is dropped after the World it came from has
\* been dropped
C22_Witness ==
    /\ last.op = "drop"
    /\ ~last.panicking
    /\ last.origin = "iter_world"
    /\ last.fini # <<>>
    /\ last.freed # <<>>

(***************************************************************************)
(* Properties of the singletons.                                           *)
(***************************************************************************)
OthersUnchanged ==
    \A T \in DOMAIN last.before :
        T # last.type => Singletons(worlds, 1)[T] = last.before[T]

\* C25: after singleton_set(v) the singleton exists and get gives v; after
\* singleton_remove it does not exist; the singletons of the other types
\* are as before
C25_SingletonRoundTrip ==
    /\ last.op = "singleton_set" =>
          /\ World_singleton_exists(worlds, 1, last.type)
          /\ World_singleton_get(worlds, 1, last.type) = last.v
          /\ OthersUnchanged
    /\ last.op = "singleton_remove" =>
          /\ ~World_singleton_exists(worlds, 1, last.type)
          /\ OthersUnchanged

\* a singleton is set over another value while the singleton of another
\* type holds a value
C25_Witness ==
    /\ last.op = "singleton_set"
    /\ last.before[last.type].exists
    /\ last.before[last.type].value # last.v
    /\ \E T \in DOMAIN last.before : T # last.type /\ last.before[T].exists

(***************************************************************************)
(* Properties of the destructor hook.                                      *)
(***************************************************************************)
\* C15: set_comp(v) runs no destructor, and remove right after it runs the
\* destructor once, on v
C15_DropOnceOnRemove ==
    /\ last.op = "set" => world.drops = last.before
    /\ last.op = "setremove" => world.drops = Append(last.before, last.v)

\* the component is removed from one entity while another entity holds
\* another value, after earlier drops
C15_Witness ==
    /\ last.op = "setremove"
    /\ last.before # <<>>
    /\ \E o \in LiveIds(world) :
          /\ CompDropper \in idset[Index(o)]
          /\ ecs_get_id(world, o, CompDropper) # last.v

(***************************************************************************)
(* Properties of the defer mode.                                           *)
(***************************************************************************)
\* what mutation m makes of an entity observed as `o` when it is carried out
Effect(m, o) ==
    CASE m.kind = "add" -> [o EXCEPT !.ids = @ \cup {m.id}]
      [] m.kind = "remove" ->
            [o EXCEPT !.ids = @ \ {m.id},
                      !.values = [id \in DataIds |-> IF id = m.id THEN 0 ELSE @[id]]]
      [] m.kind = "set" ->
            [o EXCEPT !.ids = @ \cup {m.id},
                      !.values = [id \in DataIds |-> IF id = m.id THEN m.value ELSE @[id]]]
      [] OTHER -> [alive |-> FALSE, ids |-> {}, values |-> [id \in DataIds |-> 0]]

\* C16: a mutation made between defer_begin and defer_end leaves what is
\* observed of its entity as it was, and the last mutation of the section
\* shows on its entity once the outermost defer_end has returned
C16_DeferredNotObservable ==
    /\ (last.op = "mutate" /\ last.mode = "deferred")
          => Observe(world, last.m.entity) = last.before
    /\ (last.op = "flush" /\ last.pending # <<>>)
          => LET m == last.pending[Len(last.pending)]
                 o == Observe(world, m.entity)
             IN \/ ~o.alive
                \/ /\ m.kind = "add" => m.id \in o.ids
                   /\ m.kind = "remove" => m.id \notin o.ids
                   /\ m.kind = "set" => m.id \in o.ids /\ o.values[m.id] = m.value
                   /\ m.kind # "delete"

\* a deferred delete of a live entity that holds a component, and the
\* entity still observed alive
C16_Witness ==
    /\ last.op = "mutate"
    /\ last.mode = "deferred"
    /\ last.m.kind = "delete"
    /\ last.before.ids # {}
    /\ Observe(world, last.m.entity).alive

\* C17: after the outermost defer_end the world is observed as after the
\* queued mutations made at once, one after the other in submission order
C17_FlushInSubmissionOrder ==
    last.op = "flush" =>
        /\ ObserveAll(world) = last.expect
        /\ world.queue = <<>>

\* two queued mutations of one entity whose order matters: add then remove
C17_Witness ==
    /\ last.op = "flush"
    /\ Len(last.pending) = 2
    /\ last.pending[1].kind = "add"
    /\ last.pending[2].kind = "remove"
    /\ last.pending[1].entity = last.pending[2].entity
    /\ last.pending[1].id = last.pending[2].id
    /\ last.expect[Index(last.pending[1].entity)].alive
    /\ last.pending[1].id \notin Observe(world, last.pending[1].entity).ids

\* C18: a mutation made while deferring is suspended is carried out at once
\* and leaves the queue as it was; after defer_resume a mutation is queued
\* behind the earlier ones and not carried out
C18_SuspendResume ==
    /\ (last.op = "mutate" /\ last.mode = "suspended")
          => /\ Observe(world, last.m.entity) = Effect(last.m, last.before)
             /\ world.queue = last.pending
    /\ (last.op = "mutate" /\ last.mode = "deferred" /\ last.resumed)
          => /\ Observe(world, last.m.entity) = last.before
             /\ world.queue = Append(last.pending, last.m)

\* a component is added at once while an earlier mutation waits in the queue
C18_Witness ==
    /\ last.op = "mutate"
    /\ last.mode = "suspended"
    /\ last.pending # <<>>
    /\ last.m.kind = "add"
    /\ last.m.id \notin last.before.ids
    /\ last.m.id \in Observe(world, last.m.entity).ids

(***************************************************************************)
(* Properties of the queries.                                              *)
(***************************************************************************)
\* does an id-set satisfy the query: every required id, no negated id, one
\* id of every Or group
Satisfies(ids, query) ==
    \A k \in 1 .. Len(query) :
        LET wanted == Range(query[k].ids)
        IN /\ query[k].oper = "And" => wanted \subseteq ids
           /\ query[k].oper = "Not" => wanted \cap ids = {}
           /\ query[k].oper = "Or" => wanted \cap ids # {}

Visited == {last.visits[i].e : i \in 1 .. Len(last.visits)}

\* C3: a pass visits exactly the live entities whose id-set has every
\* required id and no negated id
C3_PassVisitsMatching ==
    last.op = "pass" =>
        Visited = {e \in LiveIds(world) : Satisfies(idset[Index(e)], last.query)}

\* a pass of a query with a required and a negated term that visits one
\* entity and leaves out one that lacks the required id and one that has
\* the negated id
C3_Witness ==
    /\ last.op = "pass"
    /\ last.query = <<Term("And", <<CompTag>>), Term("Not", <<CompTriple>>)>>
    /\ Visited # {}
    /\ \E e \in LiveIds(world) \ Visited : CompTag \notin idset[Index(e)]
    /\ \E e \in LiveIds(world) \ Visited : CompTriple \in idset[Index(e)]

OrSlots(query) == {k \in 1 .. Len(query) : query[k].oper = "Or"}

OptionalSlots(query) == {k \in 1 .. Len(query) : query[k].oper = "Optional"}

\* C19: a pass of a query with an optional term visits the entities that
\* satisfy the other terms, whether they have the optional id or not; on
\* every visited row has answers whether the entity has the optional id,
\* and get gives a field exactly when it has it
C19_OptionalNeverGates ==
    last.op = "fieldpass" =>
        /\ Visited = {e \in LiveIds(world) :
                        \A k \in 1 .. Len(last.query) :
                            last.query[k].oper = "And" =>
                                last.query[k].ids[1] \in idset[Index(e)]}
        /\ \A i \in 1 .. Len(last.visits) : \A k \in OptionalSlots(last.query) :
              LET id == last.query[k].ids[1]
                  present == id \in idset[Index(last.visits[i].e)]
              IN /\ last.visits[i].has[k] = present
                 /\ IsDataId(id) => last.visits[i].got[k] = present

\* a pass that visits an entity with the optional data component and one
\* without it
C19_Witness ==
    /\ last.op = "fieldpass"
    /\ last.query = <<Term("And", <<CompTag>>), Term("Optional", <<CompData>>)>>
    /\ \E i, j \in 1 .. Len(last.visits) :
          /\ last.visits[i].has[2] /\ last.visits[i].got[2]
          /\ ~last.visits[j].has[2] /\ ~last.visits[j].got[2]

\* C21: Iter::get for a tag type does not return, whatever the term index
\* and the state of the iterator; it gives no view
C21_TagGetFailsFast ==
    last.op = "tagget" => last.panic /\ ~last.some

\* get for the tag type on the term of the tag, set on the current table
C21_Witness ==
    /\ last.op = "tagget"
    /\ last.valid
    /\ last.set
    /\ last.id = CompTag
    /\ last.panic

\* C20: a row index below the count is accepted and gives the element of
\* that row; an index at or above the count is rejected
C20_RowIndexBounded ==
    last.op = "index" =>
        /\ last.index < last.count =>
              ~last.rejected /\ last.value = last.array[last.index + 1]
        /\ last.index >= last.count => last.rejected

(***************************************************************************)
(* Properties of the scheduler.                                            *)
(***************************************************************************)
Count(seq, x) == Cardinality({i \in 1 .. Len(seq) : seq[i] = x})

\* position of a system in the list of the systems built
Registered(e) == CHOOSE i \in 1 .. Len(declared) : declared[i].entity = e

\* the phase the application asked for: the kind given to the builder, the
\* standard update phase when none was given
DeclaredPhase(d) == IF d.kind = 0 THEN OnUpdate ELSE d.kind

PhaseRank(p) == IF p = OnLoad THEN 1 ELSE IF p = OnUpdate THEN 2 ELSE 3

\* the systems built so far that depend on a phase
Scheduled(d) == d.named \/ d.kind # 0

\* C5: every progress call runs every system built before it that has no
\* rate exactly once
C5_EverySystemOncePerFrame ==
    \A k \in 1 .. Len(frames) : \A i \in 1 .. Len(declared) :
        (declared[i].rate = 0 /\ declared[i].since < k) =>
            Count(frames[k], declared[i].entity) = 1

\* C6: a system built without a kind depends on the OnUpdate phase, whether
\* built with build or with build_named
C6_DefaultsToOnUpdate ==
    \A i \in 1 .. Len(declared) :
        declared[i].kind = 0 =>
            EntityView_has(world, declared[i].entity, retrieve_pair_id(DependsOn, OnUpdate))

\* C7: within one frame the systems run by phase (OnLoad, OnUpdate, OnStore)
\* and, within a phase, in the order they were built
C7_PhaseThenRegistrationOrder ==
    \A k \in 1 .. Len(frames) : \A x, y \in 1 .. Len(frames[k]) :
        LET a == declared[Registered(frames[k][x])]
            b == declared[Registered(frames[k][y])]
        IN x < y =>
            /\ PhaseRank(DeclaredPhase(a)) <= PhaseRank(DeclaredPhase(b))
            /\ DeclaredPhase(a) = DeclaredPhase(b) =>
                  Registered(frames[k][x]) < Registered(frames[k][y])

\* a frame that ran a later-built system of an earlier phase first, and two
\* systems of one phase in the order they were built
C7_Witness ==
    \E k \in 1 .. Len(frames) : \E x, y, z \in 1 .. Len(frames[k]) :
        /\ x < y
        /\ y < z
        /\ Registered(frames[k][x]) > Registered(frames[k][y])
        /\ declared[Registered(frames[k][x])].kind = OnLoad
        /\ declared[Registered(frames[k][y])].kind = OnStore
        /\ declared[Registered(frames[k][z])].kind = OnStore

\* the number of the frames first + 1 .. first + n that ran system e
RunsIn(e, first, n) == Cardinality({k \in (first + 1) .. (first + n) : Count(frames[k], e) > 0})

\* C8: a system with rate N runs in exactly one of any N consecutive frames,
\* once; with rate 2 it runs twice in four frames
C8_RateOncePerN ==
    \A i \in 1 .. Len(declared) :
        LET d == declared[i]
        IN d.rate > 0 =>
            /\ \A k \in 1 .. Len(frames) : Count(frames[k], d.entity) <= 1
            /\ \A first \in d.since .. (Len(frames) - d.rate) :
                  RunsIn(d.entity, first, d.rate) = 1
            /\ (d.rate = 2 /\ d.since = 0 /\ Len(frames) = 4) =>
                  RunsIn(d.entity, 0, 4) = 2

\* C5 and C8 for the systems that depend on a phase
ScheduledOncePerFrame ==
    \A k \in 1 .. Len(frames) : \A i \in 1 .. Len(declared) :
        (Scheduled(declared[i]) /\ declared[i].rate = 0 /\ declared[i].since < k) =>
            Count(frames[k], declared[i].entity) = 1

ScheduledRateOncePerN ==
    \A i \in 1 .. Len(declared) :
        LET d == declared[i]
        IN (Scheduled(d) /\ d.rate > 0) =>
            /\ \A k \in 1 .. Len(frames) : Count(frames[k], d.entity) <= 1
            /\ \A first \in d.since .. (Len(frames) - d.rate) :
                  RunsIn(d.entity, first, d.rate) = 1

====
